---- MODULE Spec2Model ----
(***************************************************************************)
(* Verification model of the AImmo backend: the chat citation extractor,   *)
(* the multi-source retrieval orchestrator, the streaming chat turn, the   *)
(* document vectorization orchestrator and the soft-exclusion flag of the  *)
(* vector index.                                                           *)
(*                                                                         *)
(* Text is modelled as a sequence of tokens (strings).  The concrete text  *)
(* is the concatenation of the tokens.  The marker prefix "[SOURCE:" is    *)
(* the two tokens "[SOU" "RCE:", the closing bracket is the token "]" and  *)
(* no other token contains a bracket, so a regular-expression match on the *)
(* concrete text is a match on the token sequence.                         *)
(***************************************************************************)
EXTENDS Integers, Sequences, FiniteSets, TLC

VARIABLES
    \* ---- citation extractor (chat_sdk_service.py, pure functions) ----
    c_pc,          \* "input" | "retrieved" | "parsed" | "filtered"
    c_sources,     \* ChatRequest.requested_sources (strings)
    c_content,     \* the generated text
    c_candidates,  \* all_citations
    c_cleaned,     \* cleaned_content
    c_cited,       \* cited_chunk_ids
    c_used         \* used_citations

VARIABLES
    \* ---- one chat turn (chat_sdk_service.py, rag_sdk_service.py) ----
    s_path,        \* "stream" | "blocking" | "search": the entry point
    s_mode,        \* ChatRequest.mode
    s_requested,   \* ChatRequest.requested_sources (strings)
    s_fetched,     \* what each adapter gives when it is asked
    s_pc,          \* position in the handler
    s_results,     \* all_rag_results
    s_invoked,     \* the adapters search_rag_sources has asked, in order
    s_citations,   \* all_citations
    s_full,        \* full_content
    s_used,        \* used_citations
    s_next,        \* index of the next citation to send
    s_events,      \* the stream events yielded so far
    s_streamed,    \* the deltas the completion stream has given so far
    s_messages,    \* rows of the messages table
    s_faults,      \* storage and completion faults that have happened
    s_response     \* outcome of the blocking handler

VARIABLES
    \* ---- document vectorization (vectorization_orchestrator.py) ----
    v_file,        \* the content of the document's file
    v_doc,         \* the row of the document in the documents table
    v_jobs,        \* rows of the vectorization_jobs table
    v_points,      \* points of the document's collection in the index
    v_calls,       \* the local state of each caller of vectorize_document
    v_started,     \* number of vectorize_document calls started
    v_edits,       \* number of changes made to the file
    v_faultCount,  \* number of storage / provider faults that have happened
    v_model        \* the model of the embedding service

VARIABLES
    \* ---- soft exclusion of a document (rag_service.py) ----
    e_points,      \* the points of the collection
    e_call,        \* the local state of the running set_document_exclusion
    e_trip,        \* history: the exclude / include round trip under way
    e_faultCount   \* number of index faults that have happened

VARIABLES
    \* ---- collections of the index (qdrant_service.py) ----
    k_collections, \* the names of the collections of the index
    k_creations,   \* history: the names created, in order
    k_calls,       \* the local state of each caller of ensure_collection_exists
    k_started      \* number of ensure_collection_exists calls started

VARIABLES
    \* ---- one add_documents call (qdrant_service.py) ----
    a_total,       \* len(documents)
    a_batch_size,  \* batch_size
    a_pc,          \* position in add_documents
    a_i,           \* the loop variable i
    a_stats,       \* stats
    a_log          \* history: the batches attempted, in order

VARIABLES
    \* ---- deletion of the points of a document (qdrant_service.py) ----
    d_points,      \* the points of the collection
    d_call         \* the local state of the running delete_by_document_id

VARIABLES
    \* ---- collection names (qdrant_service.get_collection_name) ----
    n_created,     \* the collections created: organization, document type, name
    n_listing      \* the last listing: organization and names

VARIABLES
    fixed,         \* one call of rag_service._chunk_by_fixed_size: text,
                   \* chunk_size, overlap, the loop variable i, the chunks
                   \* appended so far, and pc: "idle", "loop" or "returned"
    para,          \* one call of rag_service._chunk_by_paragraph: text,
                   \* max_chunk_size, overlap, the number k of paragraphs
                   \* visited, current_chunk, start_offset, current_offset,
                   \* the chunks appended so far, the value of current_chunk
                   \* at each append (buffers), and pc
    trunc,         \* one call of an adapter's format_for_llm: the adapter,
                   \* the formatted text, max_tokens, the result, and pc:
                   \* "idle", "formatted" or "returned"
    sdk            \* one call of rag_sdk_service.chunk_text: text,
                   \* chunk_size, overlap, start, the chunks appended so far,
                   \* whether every iteration so far has increased start
                   \* (advanced), and pc: "idle", "start", "loop", "returned"

citeVars == <<c_pc, c_sources, c_content, c_candidates, c_cleaned, c_cited, c_used>>

chatVars == <<s_path, s_mode, s_requested, s_fetched, s_pc, s_results, s_invoked,
              s_citations, s_full, s_used, s_next, s_events, s_streamed,
              s_messages, s_faults, s_response>>

vecVars == <<v_file, v_doc, v_jobs, v_points, v_calls, v_started, v_edits,
             v_faultCount, v_model>>

exclVars == <<e_points, e_call, e_trip, e_faultCount>>

collVars == <<k_collections, k_creations, k_calls, k_started>>

addVars == <<a_total, a_batch_size, a_pc, a_i, a_stats, a_log>>

delVars == <<d_points, d_call>>

nameVars == <<n_created, n_listing>>

fixedVars == <<fixed>>

paraVars == <<para>>

truncVars == <<trunc>>

sdkVars == <<sdk>>

vars == <<citeVars, chatVars, vecVars, exclVars, collVars, addVars,
          delVars, nameVars, fixedVars, paraVars, truncVars, sdkVars>>

\* the variables the actions of one component leave alone
CiteFrame == UNCHANGED <<chatVars, vecVars, exclVars, collVars, addVars,
                         delVars, nameVars, fixedVars, paraVars, truncVars,
                         sdkVars>>
ChatFrame == UNCHANGED <<citeVars, vecVars, exclVars, collVars, addVars,
                         delVars, nameVars, fixedVars, paraVars, truncVars,
                         sdkVars>>
VecFrame == UNCHANGED <<citeVars, chatVars, exclVars, collVars, addVars,
                        delVars, nameVars, fixedVars, paraVars, truncVars,
                        sdkVars>>
ExclFrame == UNCHANGED <<citeVars, chatVars, vecVars, collVars, addVars,
                         delVars, nameVars, fixedVars, paraVars, truncVars,
                         sdkVars>>
CollFrame == UNCHANGED <<citeVars, chatVars, vecVars, exclVars, addVars,
                         delVars, nameVars, fixedVars, paraVars, truncVars,
                         sdkVars>>
AddFrame == UNCHANGED <<citeVars, chatVars, vecVars, exclVars, collVars,
                        delVars, nameVars, fixedVars, paraVars, truncVars,
                        sdkVars>>
DelFrame == UNCHANGED <<citeVars, chatVars, vecVars, exclVars, collVars,
                        addVars, nameVars, fixedVars, paraVars, truncVars,
                        sdkVars>>
NameFrame == UNCHANGED <<citeVars, chatVars, vecVars, exclVars, collVars,
                         addVars, delVars, fixedVars, paraVars, truncVars,
                         sdkVars>>
FixedFrame == UNCHANGED <<citeVars, chatVars, vecVars, exclVars, collVars,
                          addVars, delVars, nameVars, paraVars, truncVars,
                          sdkVars>>
ParaFrame == UNCHANGED <<citeVars, chatVars, vecVars, exclVars, collVars,
                         addVars, delVars, nameVars, fixedVars, truncVars,
                         sdkVars>>
TruncFrame == UNCHANGED <<citeVars, chatVars, vecVars, exclVars, collVars,
                          addVars, delVars, nameVars, fixedVars, paraVars,
                          sdkVars>>
SdkFrame == UNCHANGED <<citeVars, chatVars, vecVars, exclVars, collVars,
                        addVars, delVars, nameVars, fixedVars, paraVars,
                        truncVars>>

(***************************************************************************)
(* Bounds                                                                  *)
(***************************************************************************)
MaxDeltas == 4       \* number of stream deltas of one generated text
MaxSources == 2      \* length of ChatRequest.requested_sources
MaxStream == 3       \* number of deltas of one completion stream
MaxCalls == 2        \* number of vectorize_document calls in one behaviour
MaxDisturb == 1      \* number of faults and file changes of one behaviour of
                     \* the vectorization
MaxFaults == 1       \* number of index faults in one behaviour of the exclusion
MaxEnsures == 3      \* number of ensure_collection_exists calls in one behaviour
MaxTotal == 5        \* number of documents of one add_documents call
MaxBatch == 3        \* batch_size of one add_documents call
MaxPoints == 3       \* number of point ids the collection can hold
ScrollLimit == 1     \* page size of one scroll: the code's limit=1000, scaled
                     \* to the number of points of the model

(***************************************************************************)
(* Generic helpers                                                         *)
(***************************************************************************)
SeqsUpTo(S, n) == UNION {[1..k -> S] : k \in 0..n}

RECURSIVE Flatten(_)
Flatten(ss) == IF ss = <<>> THEN <<>> ELSE Head(ss) \o Flatten(Tail(ss))

Range(s) == {s[i] : i \in 1..Len(s)}

Take(s, n) == SubSeq(s, 1, IF n < Len(s) THEN n ELSE Len(s))

(***************************************************************************)
(* schemas/chat_sdk.py                                                     *)
(***************************************************************************)
SourceType == {"documents", "leases", "properties", "kpis", "tenants", "owners"}

ChatMode == {"normal", "rag_only", "rag_enhanced"}

\* str.lower() on the request strings the model uses
Lower(s) ==
    CASE s = "Documents" -> "documents"
      [] s = "KPI" -> "kpi"
      [] OTHER -> s

\* ChatRequest.get_requested_sources: lowercase, "kpi" -> "kpis", invalid
\* values are ignored; order and duplicates are kept
RECURSIVE get_requested_sources(_)
get_requested_sources(requested) ==
    IF requested = <<>> THEN <<>>
    ELSE LET lowered == Lower(Head(requested))
             normalized_source == IF lowered = "kpi" THEN "kpis" ELSE lowered
         IN  IF normalized_source \in SourceType
             THEN <<normalized_source>> \o get_requested_sources(Tail(requested))
             ELSE get_requested_sources(Tail(requested))

(***************************************************************************)
(* services/rag/rag_sdk_service.py : search_rag_sources                    *)
(***************************************************************************)
Limit == 10

\* f"chunk-{source_type.value}-{item_id}"
ChunkId(source_type, item_id) ==
    CASE source_type = "documents" /\ item_id = "doc-1" -> "chunk-documents-doc-1"
      [] source_type = "documents" /\ item_id = "doc-2" -> "chunk-documents-doc-2"
      [] source_type = "kpis" /\ item_id = "kpis-report" -> "chunk-kpis-kpis-report"
      [] OTHER -> "chunk-other"

\* RAGSearchResult (schemas/chat_sdk.py): the record has exactly these fields
RAGSearchResult(source_type, item_id) ==
    [chunk_id |-> ChunkId(source_type, item_id),
     document_id |-> item_id,
     document_title |-> item_id,
     content |-> item_id,
     source_type |-> source_type]

\* what asking an adapter gives: the item ids of fetch_data, or an exception
\* (in fetch_data or in format_for_llm of the first item), which the loop of
\* search_rag_sources catches and skips
Items(item_ids) == [raises |-> FALSE, items |-> item_ids]
Raises == [raises |-> TRUE, items |-> <<>>]

AdapterResults(fetched, source_type) ==
    IF fetched[source_type].raises THEN <<>>
    ELSE [i \in 1..Len(Take(fetched[source_type].items, Limit)) |->
              RAGSearchResult(source_type, fetched[source_type].items[i])]

RECURSIVE CollectResults(_, _)
CollectResults(active_source_types, fetched) ==
    IF active_source_types = <<>> THEN <<>>
    ELSE AdapterResults(fetched, Head(active_source_types))
             \o CollectResults(Tail(active_source_types), fetched)

\* the adapters search_rag_sources invokes: `source_types or [DOCUMENTS]`
ActiveSourceTypes(source_types) ==
    IF source_types = <<>> THEN <<"documents">> ELSE source_types

search_rag_sources(source_types, fetched) ==
    Take(CollectResults(ActiveSourceTypes(source_types), fetched), Limit)

\* what the adapters give in the citation scenarios: the two mock documents
\* of documents_adapter.py, the single report of kpis_adapter.py; the leases
\* adapter raises in format_for_llm (data['score'] on an item without score)
MockFetched ==
    [st \in SourceType |->
        CASE st = "documents" -> Items(<<"doc-1", "doc-2">>)
          [] st = "kpis" -> Items(<<"kpis-report">>)
          [] st = "leases" -> Raises
          [] OTHER -> Items(<<>>)]

(***************************************************************************)
(* services/chat/chat_sdk_service.py : citation extraction                 *)
(***************************************************************************)
Citation(result, n) ==
    [id |-> n,
     chunk_id |-> result.chunk_id,
     document_id |-> result.document_id,
     source_type |-> result.source_type]

\* process_chat_stream lines 150-160: one candidate citation per result
CitationsOf(results) == [i \in 1..Len(results) |-> Citation(results[i], i)]

Marker(chunk_id) == <<"[SOU", "RCE:", chunk_id, "]">>

\* index of the first "]" at or after i, 0 if there is none
FirstClose(s, i) ==
    IF \E j \in i..Len(s) : s[j] = "]"
    THEN CHOOSE j \in i..Len(s) : s[j] = "]" /\ \A k \in i..(j-1) : s[k] # "]"
    ELSE 0

\* the regular expression \[SOURCE:([^\]]+)\] tried at position p: the index
\* of the closing bracket of the match, 0 when it does not match at p
MatchEnd(s, p) ==
    IF p + 3 <= Len(s) /\ s[p] = "[SOU" /\ s[p+1] = "RCE:" /\ s[p+2] # "]"
    THEN FirstClose(s, p + 3)
    ELSE 0

\* re.findall(citation_pattern, content): leftmost, non-overlapping matches
RECURSIVE FindAll(_, _)
FindAll(s, p) ==
    IF p > Len(s) THEN <<>>
    ELSE LET e == MatchEnd(s, p)
         IN  IF e > 0 THEN <<SubSeq(s, p + 2, e - 1)>> \o FindAll(s, e + 1)
             ELSE FindAll(s, p + 1)

\* re.sub(citation_pattern, '', content): one pass over the same matches
RECURSIVE RemoveMarkers(_, _)
RemoveMarkers(s, p) ==
    IF p > Len(s) THEN <<>>
    ELSE LET e == MatchEnd(s, p)
         IN  IF e > 0 THEN RemoveMarkers(s, e + 1)
             ELSE <<s[p]>> \o RemoveMarkers(s, p + 1)

IsBlank(t) == t \in {" ", "\t"}
IsSpace(t) == t \in {" ", "\t", "\n"}

RECURSIVE DropWhileBlank(_)
DropWhileBlank(s) ==
    IF s # <<>> /\ IsBlank(Head(s)) THEN DropWhileBlank(Tail(s)) ELSE s

\* re.sub(r'[ \t]+', ' ', text)
RECURSIVE CollapseBlanks(_)
CollapseBlanks(s) ==
    IF s = <<>> THEN <<>>
    ELSE IF IsBlank(Head(s)) THEN <<" ">> \o CollapseBlanks(DropWhileBlank(Tail(s)))
    ELSE <<Head(s)>> \o CollapseBlanks(Tail(s))

RECURSIVE LStrip(_)
LStrip(s) == IF s # <<>> /\ IsSpace(Head(s)) THEN LStrip(Tail(s)) ELSE s

RECURSIVE RStrip(_)
RStrip(s) ==
    IF s # <<>> /\ IsSpace(s[Len(s)]) THEN RStrip(SubSeq(s, 1, Len(s) - 1)) ELSE s

\* str.strip()
Strip(s) == RStrip(LStrip(s))

\* number of "\n" tokens at the head of s
RECURSIVE NewlineRun(_)
NewlineRun(s) ==
    IF s # <<>> /\ Head(s) = "\n" THEN 1 + NewlineRun(Tail(s)) ELSE 0

\* re.sub(r'\n{3,}', '\n\n', text)
RECURSIVE LimitNewlines(_)
LimitNewlines(s) ==
    IF s = <<>> THEN <<>>
    ELSE LET n == NewlineRun(s)
         IN  IF n >= 3 THEN <<"\n", "\n">> \o LimitNewlines(SubSeq(s, n + 1, Len(s)))
             ELSE <<Head(s)>> \o LimitNewlines(Tail(s))

CleanContent(content) ==
    LimitNewlines(Strip(CollapseBlanks(RemoveMarkers(content, 1))))

parse_citations_from_content(content) ==
    [cleaned_content |-> CleanContent(content),
     cited_chunk_ids |-> FindAll(content, 1)]

\* `citation.chunk_id in cited_chunk_ids`
IsCited(chunk_id, cited_chunk_ids) ==
    \E i \in 1..Len(cited_chunk_ids) : cited_chunk_ids[i] = <<chunk_id>>

\* a faulty variant: every candidate is kept
filter_citations_keep_all(all_citations, cited_chunk_ids) == all_citations

filter_citations_by_usage(all_citations, cited_chunk_ids) ==
    SelectSeq(all_citations, LAMBDA c : IsCited(c.chunk_id, cited_chunk_ids))

(***************************************************************************)
(* Specification of the citation extractor: the candidates come from the   *)
(* retrieval of the requested sources, the generated text is any           *)
(* concatenation of at most MaxDeltas stream deltas.                       *)
(***************************************************************************)
Id1 == "chunk-documents-doc-1"
Id2 == "chunk-documents-doc-2"

Deltas ==
    {<<"[SOU">>, <<"RCE:">>, <<"]">>, <<Id1, "]">>, <<" ">>, Marker(Id1), Marker(Id2)}

ScenarioText ==
    <<"Rent is 1500", " ">> \o Marker(Id1) \o <<".", " ", "Quiet area.">>

GeneratedTexts ==
    {Flatten(ds) : ds \in SeqsUpTo(Deltas, MaxDeltas)} \cup {ScenarioText}

CiteSourceStrings == {"documents", "kpi"}

CiteInit ==
    /\ c_pc = "input"
    /\ c_sources \in SeqsUpTo(CiteSourceStrings, MaxSources) \ {<<>>}
    /\ c_content = <<>>
    /\ c_candidates = <<>>
    /\ c_cleaned = <<>>
    /\ c_cited = <<>>
    /\ c_used = <<>>

\* process_chat_stream lines 135-160
CiteRetrieve ==
    /\ CiteFrame
    /\ c_pc = "input"
    /\ c_candidates' =
           CitationsOf(search_rag_sources(get_requested_sources(c_sources), MockFetched))
    /\ c_pc' = "retrieved"
    /\ UNCHANGED <<c_sources, c_content, c_cleaned, c_cited, c_used>>

\* process_chat_stream lines 182-195
CiteParse ==
    /\ CiteFrame
    /\ c_pc = "retrieved"
    /\ \E text \in GeneratedTexts :
          /\ c_content' = text
          /\ c_cleaned' = parse_citations_from_content(text).cleaned_content
          /\ c_cited' = parse_citations_from_content(text).cited_chunk_ids
    /\ c_pc' = "parsed"
    /\ UNCHANGED <<c_sources, c_candidates, c_used>>

\* process_chat_stream line 199
CiteFilter ==
    /\ CiteFrame
    /\ c_pc = "parsed"
    /\ c_used' = filter_citations_by_usage(c_candidates, c_cited)
    /\ c_pc' = "filtered"
    /\ UNCHANGED <<c_sources, c_content, c_candidates, c_cleaned, c_cited>>

CiteNext == CiteRetrieve \/ CiteParse \/ CiteFilter

CiteIdle ==
    /\ c_pc = "idle"
    /\ c_sources = <<>>
    /\ c_content = <<>>
    /\ c_candidates = <<>>
    /\ c_cleaned = <<>>
    /\ c_cited = <<>>
    /\ c_used = <<>>

(***************************************************************************)
(* services/chat/chat_sdk_service.py : one chat turn                       *)
(***************************************************************************)
NothingFound == "Aucun document pertinent trouve pour repondre a votre question."
FoundHeader == "Voici les informations trouvees dans vos documents:"

ChunkEvent(content) == <<"chunk", content>>
CitationEvent(citation) == <<"citation", citation>>
DoneEvent == <<"done">>
ErrorEvent == <<"error">>

RagModes == {"rag_only", "rag_enhanced"}

\* format_rag_only_response: the text of the retrieval-only turn.  The loop
\* reads result.score, a field RAGSearchResult does not have: with at least
\* one result the attribute access raises
RenderResults(rag_results) ==
    <<FoundHeader>> \o
    Flatten([i \in 1..Len(rag_results) |->
                <<rag_results[i].document_title, rag_results[i].content>>])

format_rag_only_response(rag_results) ==
    IF rag_results = <<>> THEN [raised |-> FALSE, text |-> <<NothingFound>>]
    ELSE IF \E i \in 1..Len(rag_results) : "score" \notin DOMAIN rag_results[i]
    THEN [raised |-> TRUE, text |-> <<>>]
    ELSE [raised |-> FALSE, text |-> RenderResults(rag_results)]

\* save_message: the insert is wrapped in try/except (a failure is printed and
\* swallowed), the update of the conversation is not (a failure raises)
SavedRows(messages, role, content, citations, insert_ok) ==
    IF insert_ok
    THEN Append(messages, [role |-> role, content |-> content, citations |-> citations])
    ELSE messages

StreamDeltas == {<<"w">>, Marker(Id1), Marker(Id2)}

ChatSourceStrings == {"Documents", "kpi", "bogus"}

DocumentsOutcomes ==
    {Items(<<>>), Items(<<"doc-1">>), Items(<<"doc-1", "doc-2">>), Raises}

ChatInit ==
    /\ s_path \in {"stream", "blocking", "search"}
    /\ s_mode \in ChatMode
    /\ s_requested \in SeqsUpTo(ChatSourceStrings, MaxSources)
    /\ s_fetched \in {[MockFetched EXCEPT !["documents"] = o] : o \in DocumentsOutcomes}
    /\ s_pc = "start"
    /\ s_results = <<>>
    /\ s_invoked = <<>>
    /\ s_citations = <<>>
    /\ s_full = <<>>
    /\ s_used = <<>>
    /\ s_next = 1
    /\ s_events = <<>>
    /\ s_streamed = <<>>
    /\ s_messages = <<>>
    /\ s_faults = {}
    /\ s_response = "none"

ChatIdle ==
    /\ s_path = "idle"
    /\ s_mode = "normal"
    /\ s_requested = <<>>
    /\ s_fetched = MockFetched
    /\ s_pc = "idle"
    /\ s_results = <<>>
    /\ s_invoked = <<>>
    /\ s_citations = <<>>
    /\ s_full = <<>>
    /\ s_used = <<>>
    /\ s_next = 1
    /\ s_events = <<>>
    /\ s_streamed = <<>>
    /\ s_messages = <<>>
    /\ s_faults = {}
    /\ s_response = "none"

\* a faulty variant: the error is reported but the generator does not return
StreamFailGoesOn(fault) ==
    /\ s_events' = Append(s_events, ErrorEvent)
    /\ s_faults' = s_faults \cup {fault}
    /\ s_pc' = IF s_pc = "cite" THEN "finish" ELSE s_pc

\* the except clause of process_chat_stream: one error event, then the
\* generator returns
StreamFail(fault) ==
    /\ s_events' = Append(s_events, ErrorEvent)
    /\ s_faults' = s_faults \cup {fault}
    /\ s_pc' = "closed"

\* process_chat_stream lines 122-128
StreamSaveUser ==
    /\ ChatFrame
    /\ s_path = "stream" /\ s_pc = "start"
    /\ \E insert_ok \in BOOLEAN, update_ok \in BOOLEAN :
          /\ s_messages' = SavedRows(s_messages, "user", <<"question">>, <<>>, insert_ok)
          /\ IF update_ok
             THEN /\ s_pc' = "retrieve"
                  /\ s_faults' = s_faults \cup (IF insert_ok THEN {} ELSE {"insert"})
                  /\ UNCHANGED s_events
             ELSE StreamFail("update")
    /\ UNCHANGED <<s_path, s_mode, s_requested, s_fetched, s_results, s_invoked,
                   s_citations, s_full, s_used, s_next, s_streamed, s_response>>

\* process_chat_stream lines 130-166
StreamRetrieve ==
    /\ ChatFrame
    /\ s_path = "stream" /\ s_pc = "retrieve"
    /\ LET requested_sources == get_requested_sources(s_requested)
           searching == s_mode \in RagModes /\ requested_sources # <<>>
           all_rag_results ==
               IF searching THEN search_rag_sources(requested_sources, s_fetched)
               ELSE <<>>
       IN  /\ s_results' = all_rag_results
           /\ s_invoked' = IF searching THEN ActiveSourceTypes(requested_sources) ELSE <<>>
           /\ s_citations' = CitationsOf(all_rag_results)
    /\ s_pc' = IF s_mode = "rag_only" THEN "format" ELSE "stream"
    /\ UNCHANGED <<s_path, s_mode, s_requested, s_fetched, s_full, s_used, s_next,
                   s_events, s_streamed, s_messages, s_faults, s_response>>

\* process_chat_stream lines 171-179
StreamFormatRagOnly ==
    /\ ChatFrame
    /\ s_path = "stream" /\ s_pc = "format"
    /\ LET content == format_rag_only_response(s_results)
       IN  IF content.raised
           THEN /\ StreamFail("format")
                /\ UNCHANGED <<s_full, s_used>>
           ELSE /\ s_events' = Append(s_events, ChunkEvent(content.text))
                /\ s_full' = content.text
                /\ s_used' = s_citations
                /\ s_pc' = "cite"
                /\ UNCHANGED s_faults
    /\ UNCHANGED <<s_path, s_mode, s_requested, s_fetched, s_results, s_invoked,
                   s_citations, s_next, s_streamed, s_messages, s_response>>

\* process_chat_stream lines 182-192: one delta of stream_llm_response
StreamDelta ==
    /\ ChatFrame
    /\ s_path = "stream" /\ s_pc = "stream"
    /\ Len(s_streamed) < MaxStream
    /\ \E chunk_content \in StreamDeltas :
          /\ s_streamed' = Append(s_streamed, chunk_content)
          /\ s_full' = s_full \o chunk_content
          /\ s_events' = Append(s_events, ChunkEvent(chunk_content))
    /\ UNCHANGED <<s_path, s_mode, s_requested, s_fetched, s_pc, s_results, s_invoked,
                   s_citations, s_used, s_next, s_messages, s_faults, s_response>>

\* a faulty variant: the exception of the completion stream is swallowed and the turn
\* goes on with what was streamed
StreamRaiseSwallowed ==
    /\ ChatFrame
    /\ s_path = "stream" /\ s_pc = "stream"
    /\ s_faults' = s_faults \cup {"generation"}
    /\ LET parsed == parse_citations_from_content(s_full)
       IN  /\ s_full' = parsed.cleaned_content
           /\ s_used' = filter_citations_by_usage(s_citations, parsed.cited_chunk_ids)
    /\ s_pc' = "cite"
    /\ UNCHANGED <<s_path, s_mode, s_requested, s_fetched, s_results, s_invoked,
                   s_citations, s_next, s_events, s_streamed, s_messages,
                   s_response>>

\* stream_llm_response raises (history query, completion call or the stream)
StreamRaise ==
    /\ ChatFrame
    /\ s_path = "stream" /\ s_pc = "stream"
    /\ StreamFail("generation")
    /\ UNCHANGED <<s_path, s_mode, s_requested, s_fetched, s_results, s_invoked,
                   s_citations, s_full, s_used, s_next, s_streamed, s_messages,
                   s_response>>

\* process_chat_stream lines 194-199: the stream is drained
StreamDrain ==
    /\ ChatFrame
    /\ s_path = "stream" /\ s_pc = "stream"
    /\ LET parsed == parse_citations_from_content(s_full)
       IN  /\ s_full' = parsed.cleaned_content
           /\ s_used' = filter_citations_by_usage(s_citations, parsed.cited_chunk_ids)
    /\ s_pc' = "cite"
    /\ UNCHANGED <<s_path, s_mode, s_requested, s_fetched, s_results, s_invoked,
                   s_citations, s_next, s_events, s_streamed, s_messages, s_faults,
                   s_response>>

\* process_chat_stream lines 202-206
StreamCite ==
    /\ ChatFrame
    /\ s_path = "stream" /\ s_pc = "cite"
    /\ s_next <= Len(s_used)
    /\ s_events' = Append(s_events, CitationEvent(s_used[s_next]))
    /\ s_next' = s_next + 1
    /\ UNCHANGED <<s_path, s_mode, s_requested, s_fetched, s_pc, s_results, s_invoked,
                   s_citations, s_full, s_used, s_streamed, s_messages, s_faults,
                   s_response>>

\* process_chat_stream lines 208-214
StreamPersist ==
    /\ ChatFrame
    /\ s_path = "stream" /\ s_pc = "cite"
    /\ s_next > Len(s_used)
    /\ \E insert_ok \in BOOLEAN, update_ok \in BOOLEAN :
          /\ s_messages' = SavedRows(s_messages, "assistant", s_full, s_used, insert_ok)
          /\ IF update_ok
             THEN /\ s_pc' = "finish"
                  /\ s_faults' = s_faults \cup (IF insert_ok THEN {} ELSE {"insert"})
                  /\ UNCHANGED s_events
             ELSE StreamFail("update")
    /\ UNCHANGED <<s_path, s_mode, s_requested, s_fetched, s_results, s_invoked,
                   s_citations, s_full, s_used, s_next, s_streamed, s_response>>

\* process_chat_stream lines 217-220
StreamDone ==
    /\ ChatFrame
    /\ s_path = "stream" /\ s_pc = "finish"
    /\ s_events' = Append(s_events, DoneEvent)
    /\ s_pc' = "closed"
    /\ UNCHANGED <<s_path, s_mode, s_requested, s_fetched, s_results, s_invoked,
                   s_citations, s_full, s_used, s_next, s_streamed, s_messages,
                   s_faults, s_response>>

Raised == [raised |-> TRUE, content |-> <<>>, citations |-> <<>>]

\* process_chat_message lines 51-82: the retrieval of the blocking handler.
\* `rag_context, citations = await search_rag_sources(...)` unpacks the result
\* list: ValueError unless it has two elements, and then rag_context is a
\* RAGSearchResult, on which .strip() raises.  With no requested source in
\* retrieval-only mode the handler raises HTTPException.
BlockingRetrievalRaises(mode, requested_sources, fetched) ==
    /\ mode \in RagModes
    /\ \/ requested_sources # <<>>
       \/ mode = "rag_only"

\* process_chat_message, the whole handler
BlockingMessage ==
    /\ ChatFrame
    /\ s_path = "blocking" /\ s_pc = "start"
    /\ LET requested_sources == get_requested_sources(s_requested)
           searching == s_mode \in RagModes /\ requested_sources # <<>>
       IN
       \E user_insert \in BOOLEAN, user_update \in BOOLEAN,
          llm \in {[raised |-> TRUE, text |-> <<>>]}
                    \cup {[raised |-> FALSE, text |-> d] : d \in StreamDeltas},
          asst_insert \in BOOLEAN, asst_update \in BOOLEAN :
          LET rows1 == SavedRows(s_messages, "user", <<"question">>, <<>>, user_insert)
              rows2 == SavedRows(rows1, "assistant", llm.text, <<>>, asst_insert)
          IN
          /\ s_results' = IF user_update /\ searching
                          THEN search_rag_sources(requested_sources, s_fetched) ELSE <<>>
          /\ s_invoked' = IF user_update /\ searching
                          THEN ActiveSourceTypes(requested_sources) ELSE <<>>
          /\ IF ~user_update
             THEN /\ s_response' = Raised /\ s_messages' = rows1
                  /\ s_faults' = s_faults \cup {"update"}
             ELSE IF BlockingRetrievalRaises(s_mode, requested_sources, s_fetched)
             THEN /\ s_response' = Raised /\ s_messages' = rows1
                  /\ s_faults' = s_faults \cup (IF user_insert THEN {} ELSE {"insert"})
             ELSE IF llm.raised
             THEN /\ s_response' = Raised /\ s_messages' = rows1
                  /\ s_faults' = s_faults \cup {"generation"}
             ELSE IF ~asst_update
             THEN /\ s_response' = Raised /\ s_messages' = rows2
                  /\ s_faults' = s_faults \cup {"update"}
             ELSE /\ s_response' = [raised |-> FALSE, content |-> llm.text,
                                    citations |-> <<>>]
                  /\ s_messages' = rows2
                  /\ s_faults' = s_faults \cup
                         (IF user_insert /\ asst_insert THEN {} ELSE {"insert"})
    /\ s_pc' = "closed"
    /\ UNCHANGED <<s_path, s_mode, s_requested, s_fetched, s_citations, s_full,
                   s_used, s_next, s_events, s_streamed>>

\* search_rag_sources called with the converted source list, as a unit
SearchCall ==
    /\ ChatFrame
    /\ s_path = "search" /\ s_pc = "start"
    /\ LET source_types == get_requested_sources(s_requested)
       IN  /\ s_results' = search_rag_sources(source_types, s_fetched)
           /\ s_invoked' = ActiveSourceTypes(source_types)
    /\ s_pc' = "closed"
    /\ UNCHANGED <<s_path, s_mode, s_requested, s_fetched, s_citations, s_full,
                   s_used, s_next, s_events, s_streamed, s_messages, s_faults,
                   s_response>>

ChatNext ==
    \/ StreamSaveUser
    \/ StreamRetrieve
    \/ StreamFormatRagOnly
    \/ StreamDelta
    \/ StreamRaise
    \/ StreamDrain
    \/ StreamCite
    \/ StreamPersist
    \/ StreamDone
    \/ BlockingMessage
    \/ SearchCall

(***************************************************************************)
(* services/vectorization/vectorization_orchestrator.py                    *)
(* One document, its file, its row, its jobs and the points of its         *)
(* collection.  Callers run vectorize_document step by step: every step is *)
(* one database, file or index call, so that two calls can interleave.     *)
(***************************************************************************)
Callers == {1, 2}

\* the contents the file can have: "A" and "B" give chunks, "E" gives none
Contents == {"A", "B", "E"}

\* len(chunking_service.chunk_document(file_path, metadata))
NumChunks(content) ==
    CASE content = "A" -> 2
      [] content = "B" -> 11
      [] OTHER -> 0

\* chunking_service.compute_file_hash: SHA-256 of the bytes
FileHash(content) ==
    CASE content = "A" -> "sha-A"
      [] content = "B" -> "sha-B"
      [] OTHER -> "sha-E"

\* add_documents(..., batch_size=10)
BatchSize == 10

Min(a, b) == IF a < b THEN a ELSE b

\* EmbeddingService(model): the models the service knows the dimension of
EmbeddingModels == {"text-embedding-3-small", "text-embedding-3-large"}

\* EmbeddingService.dimension
dimension(model) ==
    CASE model = "text-embedding-3-small" -> 1536
      [] model = "text-embedding-3-large" -> 3072
      [] OTHER -> 1536

\* ensure_collection_exists(collection_name): the default vector_size, with
\* which add_documents creates the collection
VectorSize == 1536

\* chunk_document lines 219-231: the pieces the splitter gives, numbered in
\* order by enumerate
Chunks(content) ==
    [i \in 1 .. NumChunks(content) |->
        [chunk_id |-> i - 1, num_chunks |-> NumChunks(content),
         page_content |-> <<content, i>>]]

IdleCall ==
    [pc |-> "idle", force |-> FALSE, run |-> 0, job |-> 0, hash |-> "none",
     content |-> "none", n |-> 0, i |-> 0, processed |-> 0, errors |-> 0,
     batches |-> 0, result |-> "none", error |-> "none",
     pre |-> FALSE, overlapped |-> FALSE, edited |-> FALSE, faulted |-> FALSE,
     storage_faulted |-> FALSE, did_chunk |-> FALSE]

Active(call) == call.pc \notin {"idle", "done"}

VecInit ==
    /\ v_file = "B"
    /\ v_doc = [status |-> "not_planned", content_hash |-> "none", num_chunks |-> 0,
                collection |-> "none", error |-> "none"]
    /\ v_jobs = <<>>
    /\ v_points = {}
    /\ v_calls = [c \in Callers |-> IdleCall]
    /\ v_started = 0
    /\ v_edits = 0
    /\ v_faultCount = 0
    /\ v_model = "text-embedding-3-small"

\* the embedding service is built with the large model, the collections are
\* created with the default vector size
DimInit ==
    /\ v_file = "B"
    /\ v_doc = [status |-> "not_planned", content_hash |-> "none", num_chunks |-> 0,
                collection |-> "none", error |-> "none"]
    /\ v_jobs = <<>>
    /\ v_points = {}
    /\ v_calls = [c \in Callers |-> IdleCall]
    /\ v_started = 0
    /\ v_edits = 0
    /\ v_faultCount = 0
    /\ v_model = "text-embedding-3-large"

VecIdle ==
    /\ v_file = "A"
    /\ v_doc = [status |-> "not_planned", content_hash |-> "none", num_chunks |-> 0,
                collection |-> "none", error |-> "none"]
    /\ v_jobs = <<>>
    /\ v_points = {}
    /\ v_calls = [c \in Callers |-> IdleCall]
    /\ v_started = 0
    /\ v_edits = 0
    /\ v_faultCount = 0
    /\ v_model = "text-embedding-3-small"

\* the faults and file changes that have happened
Disturbances == v_faultCount + v_edits

\* the outcomes of one external call: it succeeds, or it fails while faults
\* are left to spend
Outcomes == IF Disturbances < MaxDisturb THEN {TRUE, FALSE} ELSE {TRUE}

Spent(ok) == IF ok THEN 0 ELSE 1

\* _update_document_status: the update is wrapped in try/except, a failed
\* update is logged and the row keeps its values
UpdatedDocument(doc, ok, status, error, num_chunks, collection_name, content_hash) ==
    IF ~ok THEN doc
    ELSE [status |-> status,
          error |-> IF error # "none" THEN error ELSE doc.error,
          num_chunks |-> IF num_chunks >= 0 THEN num_chunks ELSE doc.num_chunks,
          collection |-> IF collection_name # "none" THEN collection_name
                         ELSE doc.collection,
          content_hash |-> IF content_hash # "none" THEN content_hash
                           ELSE doc.content_hash]

\* _update_vectorization_job: a failed update is logged and swallowed;
\* job 0 is `job_id = None`, for which no update is made
UpdatedJobs(jobs, job_id, ok, status, error, num_chunks_processed) ==
    IF job_id = 0 \/ ~ok THEN jobs
    ELSE [jobs EXCEPT ![job_id] =
              [status |-> status,
               error |-> error,
               processed |-> IF num_chunks_processed >= 0 THEN num_chunks_processed
                             ELSE jobs[job_id].processed]]

\* vectorize_document lines 160-180: read the document, set it in_progress,
\* create the job
VecStart(c, force) ==
    /\ VecFrame
    /\ ~Active(v_calls[c])
    \* callers are interchangeable: a call takes the first free caller
    /\ \A d \in Callers : d < c => Active(v_calls[d])
    /\ v_started < MaxCalls
    /\ \E read_ok \in Outcomes, status_ok \in Outcomes, job_ok \in Outcomes :
          LET spent == Spent(read_ok) + Spent(status_ok) + Spent(job_ok)
              others == \E d \in Callers \ {c} : Active(v_calls[d])
              call == [IdleCall EXCEPT
                          !.force = force,
                          !.run = v_started + 1,
                          !.pre = (v_doc.status = "vectorized"
                                      /\ v_doc.content_hash = FileHash(v_file)),
                          !.overlapped = others,
                          !.faulted = (spent > 0),
                          !.storage_faulted = (spent > 0)]
          IN
          /\ Disturbances + spent <= MaxDisturb
          /\ v_faultCount' = v_faultCount + spent
          /\ IF ~read_ok
             THEN /\ status_ok /\ job_ok
                  /\ v_calls' = [v_calls EXCEPT
                         ![c] = [call EXCEPT !.pc = "done", !.result = "not_found"]]
                  /\ UNCHANGED <<v_doc, v_jobs>>
             ELSE /\ v_doc' = UpdatedDocument(v_doc, status_ok, "in_progress",
                                              "none", -1, "none", "none")
                  /\ v_jobs' = IF job_ok
                               THEN Append(v_jobs, [status |-> "processing",
                                                    error |-> "none", processed |-> 0])
                               ELSE v_jobs
                  /\ v_calls' = [d \in Callers |->
                         IF d = c
                         THEN [call EXCEPT !.pc = "check",
                                           !.job = IF job_ok THEN Len(v_jobs) + 1 ELSE 0]
                         ELSE IF Active(v_calls[d])
                         THEN [v_calls[d] EXCEPT !.overlapped = TRUE]
                         ELSE v_calls[d]]
    /\ v_started' = v_started + 1
    /\ UNCHANGED <<v_file, v_points, v_edits, v_model>>

\* vectorize_document lines 183-204: hash of the file, then, without force,
\* the comparison with the stored hash and status
VecCheck(c) ==
    /\ VecFrame
    /\ v_calls[c].pc = "check"
    /\ LET call == v_calls[c]
           content_hash == FileHash(v_file)
       IN
       \E read_ok \in Outcomes :
          /\ v_faultCount' = v_faultCount + Spent(read_ok)
          /\ v_calls' = [v_calls EXCEPT ![c] =
                IF call.force
                THEN [call EXCEPT !.hash = content_hash, !.pc = "delete"]
                ELSE IF ~read_ok
                THEN [call EXCEPT !.hash = content_hash, !.pc = "except",
                                  !.error = "read failed", !.faulted = TRUE,
                                  !.storage_faulted = TRUE]
                ELSE IF v_doc.content_hash = content_hash /\ v_doc.status = "vectorized"
                THEN [call EXCEPT !.hash = content_hash, !.pc = "done",
                                  !.result = "skipped"]
                ELSE [call EXCEPT !.hash = content_hash, !.pc = "chunk"]]
          /\ (call.force => read_ok)
    /\ UNCHANGED <<v_file, v_doc, v_jobs, v_points, v_started, v_edits, v_model>>

\* a faulty variant: the forced run deletes nothing
VecDeleteKeeps(c) ==
    /\ VecFrame
    /\ v_calls[c].pc = "delete"
    /\ v_calls' = [v_calls EXCEPT ![c].pc = "chunk"]
    /\ UNCHANGED <<v_file, v_doc, v_jobs, v_points, v_started, v_edits, v_faultCount,
                   v_model>>

\* vectorize_document lines 207-212: with force, the points of the document
\* are deleted; a failure of the deletion is logged and ignored
VecDelete(c) ==
    /\ VecFrame
    /\ v_calls[c].pc = "delete"
    /\ \E delete_ok \in Outcomes :
          /\ v_faultCount' = v_faultCount + Spent(delete_ok)
          /\ v_points' = IF delete_ok THEN {} ELSE v_points
          /\ v_calls' = [v_calls EXCEPT ![c].pc = "chunk",
                                        ![c].faulted = @ \/ ~delete_ok]
    /\ UNCHANGED <<v_file, v_doc, v_jobs, v_started, v_edits, v_model>>

\* a faulty variant: a document with no chunk goes on to the index
VecChunkGoesOn(c) ==
    /\ VecFrame
    /\ v_calls[c].pc = "chunk"
    /\ v_calls' = [v_calls EXCEPT ![c] =
          [@ EXCEPT !.did_chunk = TRUE, !.content = v_file,
                    !.n = NumChunks(v_file), !.pc = "ensure"]]
    /\ UNCHANGED <<v_file, v_doc, v_jobs, v_points, v_started, v_edits, v_faultCount,
                   v_model>>

\* vectorize_document lines 214-229: chunking; no chunk is a ValueError
VecChunk(c) ==
    /\ VecFrame
    /\ v_calls[c].pc = "chunk"
    /\ v_calls' = [v_calls EXCEPT ![c] =
          IF NumChunks(v_file) = 0
          THEN [@ EXCEPT !.did_chunk = TRUE, !.content = v_file, !.pc = "except",
                         !.error = "No chunks generated from document"]
          ELSE [@ EXCEPT !.did_chunk = TRUE, !.content = v_file,
                         !.n = NumChunks(v_file), !.pc = "ensure"]]
    /\ UNCHANGED <<v_file, v_doc, v_jobs, v_points, v_started, v_edits, v_faultCount,
                   v_model>>

\* add_documents line 112: ensure_collection_exists; its exception leaves
\* add_documents and is caught by vectorize_document
VecEnsure(c) ==
    /\ VecFrame
    /\ v_calls[c].pc = "ensure"
    /\ \E ensure_ok \in Outcomes :
          /\ v_faultCount' = v_faultCount + Spent(ensure_ok)
          /\ v_calls' = [v_calls EXCEPT ![c] =
                IF ensure_ok THEN [@ EXCEPT !.pc = "batch"]
                ELSE [@ EXCEPT !.pc = "except", !.error = "collection",
                               !.faulted = TRUE]]
    /\ UNCHANGED <<v_file, v_doc, v_jobs, v_points, v_started, v_edits, v_model>>

\* the points one batch stores: the store gives every point a fresh id
BatchPoints(call) ==
    LET chunks == Chunks(call.content)
    IN  {[run |-> call.run, chunk_id |-> chunks[k + 1].chunk_id,
          num_chunks |-> chunks[k + 1].num_chunks,
          page_content |-> chunks[k + 1].page_content] :
            k \in call.i .. (Min(call.i + BatchSize, call.n) - 1)}

\* the outcomes of one upsert of embedded chunks: the index refuses vectors
\* whose dimension is not the one of the collection
UpsertOutcomes ==
    IF dimension(v_model) = VectorSize THEN Outcomes ELSE {FALSE}

\* add_documents lines 134-155: one batch; a failed batch is counted and
\* the loop goes on
VecBatch(c) ==
    /\ VecFrame
    /\ v_calls[c].pc = "batch"
    /\ v_calls[c].i < v_calls[c].n
    /\ LET call == v_calls[c]
           batch == BatchPoints(call)
       IN
       \E upsert_ok \in UpsertOutcomes :
          /\ v_faultCount' = IF dimension(v_model) = VectorSize
                             THEN v_faultCount + Spent(upsert_ok) ELSE v_faultCount
          /\ v_points' = IF upsert_ok THEN v_points \cup batch ELSE v_points
          /\ v_calls' = [v_calls EXCEPT ![c] =
                [call EXCEPT
                    !.i = call.i + BatchSize,
                    !.batches = call.batches + 1,
                    !.processed = IF upsert_ok
                                  THEN call.processed + Cardinality(batch)
                                  ELSE call.processed,
                    !.errors = IF upsert_ok THEN call.errors ELSE call.errors + 1,
                    !.faulted = call.faulted \/ ~upsert_ok]]
    /\ UNCHANGED <<v_file, v_doc, v_jobs, v_started, v_edits, v_model>>

\* a faulty variant: the document records the chunks that were stored
VecFinishCountsStored(c) ==
    /\ VecFrame
    /\ v_calls[c].pc = "batch"
    /\ v_calls[c].i >= v_calls[c].n
    /\ LET call == v_calls[c]
       IN
       \E status_ok \in Outcomes, job_ok \in Outcomes :
          /\ Disturbances + Spent(status_ok) + Spent(job_ok) <= MaxDisturb
          /\ v_faultCount' = v_faultCount + Spent(status_ok) + Spent(job_ok)
          /\ v_doc' = UpdatedDocument(v_doc, status_ok, "vectorized", "none",
                                      call.processed, "collection", call.hash)
          /\ v_jobs' = UpdatedJobs(v_jobs, call.job, job_ok, "completed", "none",
                                   call.processed)
          /\ v_calls' = [v_calls EXCEPT ![c] =
                [call EXCEPT !.pc = "done", !.result = "success",
                             !.faulted = call.faulted \/ ~status_ok \/ ~job_ok,
                             !.storage_faulted =
                                 call.storage_faulted \/ ~status_ok \/ ~job_ok]]
    /\ UNCHANGED <<v_file, v_points, v_started, v_edits, v_model>>

\* vectorize_document lines 242-267: the document is marked vectorized, the
\* job completed
VecFinish(c) ==
    /\ VecFrame
    /\ v_calls[c].pc = "batch"
    /\ v_calls[c].i >= v_calls[c].n
    /\ LET call == v_calls[c]
       IN
       \E status_ok \in Outcomes, job_ok \in Outcomes :
          /\ Disturbances + Spent(status_ok) + Spent(job_ok) <= MaxDisturb
          /\ v_faultCount' = v_faultCount + Spent(status_ok) + Spent(job_ok)
          /\ v_doc' = UpdatedDocument(v_doc, status_ok, "vectorized", "none", call.n,
                                      "collection", call.hash)
          /\ v_jobs' = UpdatedJobs(v_jobs, call.job, job_ok, "completed", "none",
                                   call.processed)
          /\ v_calls' = [v_calls EXCEPT ![c] =
                [call EXCEPT !.pc = "done", !.result = "success",
                             !.faulted = call.faulted \/ ~status_ok \/ ~job_ok,
                             !.storage_faulted =
                                 call.storage_faulted \/ ~status_ok \/ ~job_ok]]
    /\ UNCHANGED <<v_file, v_points, v_started, v_edits, v_model>>

\* vectorize_document lines 269-289: the except clause
VecExcept(c) ==
    /\ VecFrame
    /\ v_calls[c].pc = "except"
    /\ LET call == v_calls[c]
       IN
       \E status_ok \in Outcomes, job_ok \in Outcomes :
          /\ Disturbances + Spent(status_ok) + Spent(job_ok) <= MaxDisturb
          /\ v_faultCount' = v_faultCount + Spent(status_ok) + Spent(job_ok)
          /\ v_doc' = UpdatedDocument(v_doc, status_ok, "error", call.error, -1,
                                      "none", "none")
          /\ v_jobs' = UpdatedJobs(v_jobs, call.job, job_ok, "failed", call.error, -1)
          /\ v_calls' = [v_calls EXCEPT ![c] =
                [call EXCEPT !.pc = "done", !.result = "failed",
                             !.faulted = call.faulted \/ ~status_ok \/ ~job_ok,
                             !.storage_faulted =
                                 call.storage_faulted \/ ~status_ok \/ ~job_ok]]
    /\ UNCHANGED <<v_file, v_points, v_started, v_edits, v_model>>

\* the file of the document is replaced (a new upload)
FileChange ==
    /\ VecFrame
    /\ Disturbances < MaxDisturb
    /\ \E content \in Contents \ {v_file} : v_file' = content
    /\ v_edits' = v_edits + 1
    /\ v_calls' = [c \in Callers |->
          IF Active(v_calls[c]) THEN [v_calls[c] EXCEPT !.edited = TRUE]
          ELSE v_calls[c]]
    /\ UNCHANGED <<v_doc, v_jobs, v_points, v_started, v_faultCount, v_model>>

VecNext ==
    \/ \E c \in Callers, force \in BOOLEAN : VecStart(c, force)
    \/ \E c \in Callers : VecCheck(c)
    \/ \E c \in Callers : VecDelete(c)
    \/ \E c \in Callers : VecChunk(c)
    \/ \E c \in Callers : VecEnsure(c)
    \/ \E c \in Callers : VecBatch(c)
    \/ \E c \in Callers : VecFinish(c)
    \/ \E c \in Callers : VecExcept(c)
    \/ FileChange

(***************************************************************************)
(* services/rag_service.py: index_document and set_document_exclusion      *)
(* (services/rag/rag_sdk_service.py holds the same set_document_exclusion).*)
(* A point is its id and its payload; the vector is the embedding of the   *)
(* content.                                                                *)
(***************************************************************************)
Documents == {"D1", "D2"}

PointIds == 1 .. MaxPoints

\* the number of chunks chunk_text gives for the content of one request
ChunkCounts == {1, 2}

\* vectorize_batch: the embedding of one chunk
Embedding(content) == <<"embedding", content>>

\* the point index_document builds for chunk i of a document
PointStruct(id, document_id, i, total) ==
    [id |-> id,
     vector |-> Embedding(<<document_id, i>>),
     document_id |-> document_id,
     content |-> <<document_id, i>>,
     chunk_index |-> i,
     total_chunks |-> total,
     is_excluded |-> FALSE]

UsedIds(points) == {p.id : p \in points}

\* the ways to give `total` chunks distinct fresh ids (uuid4)
FreshIds(points, total) ==
    {f \in [0 .. total - 1 -> PointIds \ UsedIds(points)] :
        \A i, j \in 0 .. total - 1 : f[i] = f[j] => i = j}

\* the ids of the points a scroll with a document_id filter returns: the
\* first `limit` matching points in the order of their ids
RECURSIVE FirstIds(_, _)
FirstIds(ids, limit) ==
    IF ids = {} \/ limit = 0 THEN <<>>
    ELSE LET least == CHOOSE i \in ids : \A j \in ids : i <= j
         IN <<least>> \o FirstIds(ids \ {least}, limit - 1)

scroll(points, document_id, limit) ==
    FirstIds({p.id : p \in {q \in points : q.document_id = document_id}}, limit)

\* a set_payload that replaces the payload of the point instead of merging
overwrite_payload(points, id, excluded) ==
    {IF p.id = id
     THEN [p EXCEPT !.is_excluded = excluded, !.content = <<>>, !.chunk_index = 0,
                    !.total_chunks = 0]
     ELSE p : p \in points}

\* qdrant_client.set_payload(payload={"is_excluded": excluded}, points=[id]):
\* the key is merged into the payload of the point
set_payload(points, id, excluded) ==
    {IF p.id = id THEN [p EXCEPT !.is_excluded = excluded] ELSE p : p \in points}

NoCall == [pc |-> "idle", document_id |-> "none", excluded |-> FALSE,
           page |-> <<>>, k |-> 0]

NoTrip == [phase |-> 0, document_id |-> "none", before |-> {}]

ExclInit ==
    /\ e_points = {}
    /\ e_call = NoCall
    /\ e_trip = NoTrip
    /\ e_faultCount = 0

ExclIdle ==
    /\ e_points = {}
    /\ e_call = NoCall
    /\ e_trip = NoTrip
    /\ e_faultCount = 0

\* index_document lines 504-606: the chunks of the content are embedded and
\* upserted under fresh ids; points the document already has stay
ExclIndexDocument(document_id, total) ==
    /\ ExclFrame
    /\ \E ids \in FreshIds(e_points, total) :
          e_points' = e_points \cup
              {PointStruct(ids[i], document_id, i, total) : i \in 0 .. total - 1}
    /\ e_trip' = NoTrip
    /\ UNCHANGED <<e_call, e_faultCount>>

\* set_document_exclusion lines 629-643: the scroll
ExclScroll(document_id, excluded) ==
    /\ ExclFrame
    /\ e_call.pc = "idle"
    /\ \E p \in e_points : p.document_id = document_id
    /\ e_call' = [pc |-> "set", document_id |-> document_id, excluded |-> excluded,
                  page |-> scroll(e_points, document_id, ScrollLimit), k |-> 1]
    /\ e_trip' =
          IF excluded
          THEN [phase |-> 1, document_id |-> document_id, before |-> e_points]
          ELSE IF e_trip.phase = 2 /\ e_trip.document_id = document_id
          THEN [e_trip EXCEPT !.phase = 3]
          ELSE NoTrip
    /\ UNCHANGED <<e_points, e_faultCount>>

\* set_document_exclusion lines 646-651: one turn of the loop
ExclSetPayload ==
    /\ ExclFrame
    /\ e_call.pc = "set"
    /\ e_call.k <= Len(e_call.page)
    /\ e_points' = set_payload(e_points, e_call.page[e_call.k], e_call.excluded)
    /\ e_call' = [e_call EXCEPT !.k = e_call.k + 1]
    /\ UNCHANGED <<e_trip, e_faultCount>>

\* a set_payload raises: the exception leaves set_document_exclusion, the
\* points already updated stay updated
ExclRaise ==
    /\ ExclFrame
    /\ e_call.pc = "set"
    /\ e_call.k <= Len(e_call.page)
    /\ e_faultCount < MaxFaults
    /\ e_faultCount' = e_faultCount + 1
    /\ e_call' = NoCall
    /\ e_trip' = NoTrip
    /\ UNCHANGED <<e_points>>

\* set_document_exclusion line 653: return len(points)
ExclReturn ==
    /\ ExclFrame
    /\ e_call.pc = "set"
    /\ e_call.k > Len(e_call.page)
    /\ e_call' = NoCall
    /\ e_trip' = IF e_trip.phase \in {1, 3}
                 THEN [e_trip EXCEPT !.phase = e_trip.phase + 1]
                 ELSE NoTrip
    /\ UNCHANGED <<e_points, e_faultCount>>

ExclNext ==
    \/ \E document_id \in Documents, total \in ChunkCounts :
          ExclIndexDocument(document_id, total)
    \/ \E document_id \in Documents, excluded \in BOOLEAN :
          ExclScroll(document_id, excluded)
    \/ ExclSetPayload
    \/ ExclRaise
    \/ ExclReturn


(***************************************************************************)
(* services/vectorization/qdrant_service.py: ensure_collection_exists      *)
(* (services/rag_service.py holds a variant that lists the collections     *)
(* before it creates).  Callers run the existence check and the creation   *)
(* as two calls to the index, so that other callers can run in between.    *)
(***************************************************************************)
CollectionNames == {"org_1_general", "org_1_lease", "org_2_general"}

NoEnsure == [pc |-> "idle", name |-> "none", result |-> "none"]

CollInit ==
    /\ k_collections = {}
    /\ k_creations = <<>>
    /\ k_calls = [c \in Callers |-> NoEnsure]
    /\ k_started = 0

CollIdle ==
    /\ k_collections = {}
    /\ k_creations = <<>>
    /\ k_calls = [c \in Callers |-> NoEnsure]
    /\ k_started = 0

\* ensure_collection_exists lines 73-78: get_collection succeeds and the
\* caller returns True, or it raises "not found" and the caller goes on to
\* the creation
CollGet(c, collection_name) ==
    /\ CollFrame
    /\ k_calls[c].pc \in {"idle", "done"}
    /\ k_started < MaxEnsures
    /\ k_started' = k_started + 1
    /\ k_calls' = [k_calls EXCEPT ![c] =
          IF collection_name \in k_collections
          THEN [pc |-> "done", name |-> collection_name, result |-> "True"]
          ELSE [pc |-> "create", name |-> collection_name, result |-> "none"]]
    /\ UNCHANGED <<k_collections, k_creations>>

\* client.create_collection: the index refuses a name that exists
create_collection(collections, collection_name) ==
    IF collection_name \in collections
    THEN [raised |-> TRUE, collections |-> collections]
    ELSE [raised |-> FALSE, collections |-> collections \cup {collection_name}]

\* ensure_collection_exists lines 80-88: create_collection; its exception is
\* logged and raised again
CollCreate(c) ==
    /\ CollFrame
    /\ k_calls[c].pc = "create"
    /\ LET created == create_collection(k_collections, k_calls[c].name)
       IN  /\ k_collections' = created.collections
           /\ k_creations' = IF created.raised THEN k_creations
                             ELSE Append(k_creations, k_calls[c].name)
           /\ k_calls' = [k_calls EXCEPT ![c].pc = "done",
                             ![c].result = IF created.raised THEN "raised" ELSE "True"]
    /\ UNCHANGED k_started

CollNext ==
    \/ \E c \in Callers, collection_name \in CollectionNames :
          CollGet(c, collection_name)
    \/ \E c \in Callers : CollCreate(c)


(***************************************************************************)
(* services/vectorization/qdrant_service.py: add_documents, for any number *)
(* of documents and any batch size                                         *)
(***************************************************************************)
NoStats == [total |-> 0, processed |-> 0, errors |-> 0, batches |-> 0]

AddInit ==
    /\ a_total \in 0 .. MaxTotal
    /\ a_batch_size \in 1 .. MaxBatch
    /\ a_pc = "start"
    /\ a_i = 0
    /\ a_stats = NoStats
    /\ a_log = <<>>

AddIdle ==
    /\ a_total = 0
    /\ a_batch_size = 1
    /\ a_pc = "idle"
    /\ a_i = 0
    /\ a_stats = NoStats
    /\ a_log = <<>>

\* add_documents lines 111-128: the collection is ensured (its exception
\* leaves add_documents), no document returns at once, the counters start
AddStart ==
    /\ AddFrame
    /\ a_pc = "start"
    /\ \E ensure_ok \in BOOLEAN :
          /\ a_pc' = IF ~ensure_ok THEN "raised"
                     ELSE IF a_total = 0 THEN "returned" ELSE "loop"
          /\ a_stats' = IF ensure_ok THEN [NoStats EXCEPT !.total = a_total]
                        ELSE a_stats
    /\ UNCHANGED <<a_total, a_batch_size, a_i, a_log>>

\* len(documents[i:i+batch_size])
BatchLen(total, i, batch_size) == Min(i + batch_size, total) - i

\* a loop that stops at the first failed batch
AddBatchAborts ==
    /\ AddFrame
    /\ a_pc = "loop"
    /\ a_i < a_total
    /\ \E upsert_ok \in BOOLEAN :
          LET size == BatchLen(a_total, a_i, a_batch_size)
          IN  /\ a_stats' = [a_stats EXCEPT
                    !.batches = @ + 1,
                    !.processed = IF upsert_ok THEN @ + size ELSE @,
                    !.errors = IF upsert_ok THEN @ ELSE @ + 1]
              /\ a_log' = Append(a_log, [start |-> a_i, size |-> size, ok |-> upsert_ok])
              /\ a_i' = IF upsert_ok THEN a_i + a_batch_size ELSE a_total
    /\ UNCHANGED <<a_total, a_batch_size, a_pc>>

\* add_documents lines 134-155: one turn of the loop over the batches
AddBatch ==
    /\ AddFrame
    /\ a_pc = "loop"
    /\ a_i < a_total
    /\ \E upsert_ok \in BOOLEAN :
          LET size == BatchLen(a_total, a_i, a_batch_size)
          IN  /\ a_stats' = [a_stats EXCEPT
                    !.batches = @ + 1,
                    !.processed = IF upsert_ok THEN @ + size ELSE @,
                    !.errors = IF upsert_ok THEN @ ELSE @ + 1]
              /\ a_log' = Append(a_log, [start |-> a_i, size |-> size, ok |-> upsert_ok])
              /\ a_i' = a_i + a_batch_size
    /\ UNCHANGED <<a_total, a_batch_size, a_pc>>

\* add_documents lines 157-163: return stats
AddReturn ==
    /\ AddFrame
    /\ a_pc = "loop"
    /\ a_i >= a_total
    /\ a_pc' = "returned"
    /\ UNCHANGED <<a_total, a_batch_size, a_i, a_stats, a_log>>

AddNext == AddStart \/ AddBatch \/ AddReturn


(***************************************************************************)
(* services/vectorization/qdrant_service.py: delete_by_document_id.  The   *)
(* points of one collection carry the document id at the top level of the  *)
(* payload (doc_id) or inside the metadata (metadata.doc_id), after the     *)
(* path that wrote them.                                                   *)
(***************************************************************************)
WritePaths == {"root", "metadata"}

\* the payload of a point, as far as the document id goes
Payload(id, document_id, path) ==
    [id |-> id,
     doc_id |-> IF path = "root" THEN document_id ELSE "none",
     metadata_doc_id |-> IF path = "metadata" THEN document_id ELSE "none"]

\* delete_by_document_id lines 197-203: the points the scroll selects
Matching(points, document_id) ==
    {p \in points : p.doc_id = document_id \/ p.metadata_doc_id = document_id}

\* client.delete with a filter on one key
DeleteWhere(points, key, document_id) ==
    {p \in points : p[key] # document_id}

NoDelete == [pc |-> "idle", document_id |-> "none", found |-> {}, before |-> {},
             disturbed |-> FALSE, result |-> -1]

DelInit ==
    /\ d_points = {}
    /\ d_call = NoDelete

DelIdle ==
    /\ d_points = {}
    /\ d_call = NoDelete

\* a point is written by one of the two paths, at any time
DelUpsert(document_id, path) ==
    /\ DelFrame
    /\ \E id \in PointIds \ UsedIds(d_points) :
          d_points' = d_points \cup {Payload(id, document_id, path)}
    /\ d_call' = IF d_call.pc \in {"idle", "raised"} THEN d_call
                 ELSE [d_call EXCEPT !.disturbed = TRUE]

\* delete_by_document_id lines 178-182: ensure_collection_exists; any
\* exception is taken for a missing collection and 0 is returned
DelEnsure(document_id) ==
    /\ DelFrame
    /\ d_call.pc \in {"idle", "returned", "raised"}
    /\ \E ensure_ok \in BOOLEAN :
          d_call' = [pc |-> IF ensure_ok THEN "scroll" ELSE "returned",
                     document_id |-> document_id, found |-> {},
                     before |-> d_points, disturbed |-> FALSE,
                     result |-> IF ensure_ok THEN -1 ELSE 0]
    /\ UNCHANGED d_points

\* lines 184-211: the scroll over the whole collection; its exception is
\* raised again; lines 236-239: nothing found, nothing deleted
DelScroll ==
    /\ DelFrame
    /\ d_call.pc = "scroll"
    /\ \E scroll_ok \in BOOLEAN :
          LET points_to_delete == {p.id : p \in Matching(d_points, d_call.document_id)}
          IN  d_call' =
                 IF ~scroll_ok THEN [d_call EXCEPT !.pc = "raised"]
                 ELSE IF points_to_delete = {}
                 THEN [d_call EXCEPT !.pc = "returned", !.result = 0]
                 ELSE [d_call EXCEPT !.pc = "delete_root", !.found = points_to_delete]
    /\ UNCHANGED d_points

\* lines 216-223: the deletion by the top-level doc_id
DelDeleteRoot ==
    /\ DelFrame
    /\ d_call.pc = "delete_root"
    /\ \E delete_ok \in BOOLEAN :
          IF delete_ok
          THEN /\ d_points' = DeleteWhere(d_points, "doc_id", d_call.document_id)
               /\ d_call' = [d_call EXCEPT !.pc = "delete_metadata"]
          ELSE /\ d_call' = [d_call EXCEPT !.pc = "raised"]
               /\ UNCHANGED d_points

\* lines 225-241: the deletion by metadata.doc_id, and the return
DelDeleteMetadata ==
    /\ DelFrame
    /\ d_call.pc = "delete_metadata"
    /\ \E delete_ok \in BOOLEAN :
          IF delete_ok
          THEN /\ d_points' = DeleteWhere(d_points, "metadata_doc_id", d_call.document_id)
               /\ d_call' = [d_call EXCEPT !.pc = "returned",
                                           !.result = Cardinality(d_call.found)]
          ELSE /\ d_call' = [d_call EXCEPT !.pc = "raised"]
               /\ UNCHANGED d_points

DelNext ==
    \/ \E document_id \in Documents, path \in WritePaths : DelUpsert(document_id, path)
    \/ \E document_id \in Documents : DelEnsure(document_id)
    \/ DelScroll
    \/ DelDeleteRoot
    \/ DelDeleteMetadata


(***************************************************************************)
(* Collection names: qdrant_service.py, get_collection_name and            *)
(* list_collections_for_organization.  A string is the sequence of its     *)
(* characters.                                                             *)
(***************************************************************************)
\* the number of collections created
MaxCollections == 2

\* organization ids are UUIDs (documents.organization_id): hexadecimal
\* digits in groups of fixed length, joined by hyphens
HexDigits == {"a", "1"}

OrganizationIds == {<<x, "-", y>> : x \in HexDigits, y \in HexDigits}

\* document types as the rows carry them: free strings, "avis_echeance"
\* among the types of the application
DocumentTypes == {<<"b">>, <<"a", "_", "e">>, <<"A", " ", "E">>, <<"a", "-", "1">>}

\* str.lower, character by character
lower(s) ==
    [i \in 1 .. Len(s) |->
        CASE s[i] = "A" -> "a"
          [] s[i] = "E" -> "e"
          [] OTHER -> s[i]]

\* str.replace(old, new) for a one-character old
replace(s, old, new) == [i \in 1 .. Len(s) |-> IF s[i] = old THEN new ELSE s[i]]

\* the variant that leaves the organization out of the name
get_collection_name_of_type(organization_id, document_type) ==
    LET doc_type_clean == replace(replace(lower(document_type), " ", "_"), "-", "_")
    IN  <<"o", "r", "g", "_">> \o doc_type_clean

\* get_collection_name, lines 39-54
get_collection_name(organization_id, document_type) ==
    LET doc_type_clean == replace(replace(lower(document_type), " ", "_"), "-", "_")
    IN  <<"o", "r", "g", "_">> \o organization_id \o <<"_">> \o doc_type_clean

\* str.startswith
startswith(s, prefix) ==
    /\ Len(prefix) <= Len(s)
    /\ SubSeq(s, 1, Len(prefix)) = prefix

\* list_collections_for_organization, lines 260-279
list_collections_for_organization(all_collections, organization_id) ==
    LET org_prefix == <<"o", "r", "g", "_">> \o organization_id \o <<"_">>
    IN  {name \in all_collections : startswith(name, org_prefix)}

\* the names of the collections of the index
CollectionsOfIndex == {r.name : r \in n_created}

NoListing == [organization_id |-> <<>>, names |-> {}]

NameInit ==
    /\ n_created = {}
    /\ n_listing = NoListing

NameIdle ==
    /\ n_created = {}
    /\ n_listing = NoListing

\* vectorize_document line 187 and add_documents line 112: the collection
\* of an organization and a document type is named, then created
NameCreate(organization_id, document_type) ==
    /\ NameFrame
    /\ Cardinality(n_created) < MaxCollections
    /\ n_created' = n_created \cup
          {[organization_id |-> organization_id, document_type |-> document_type,
            name |-> get_collection_name(organization_id, document_type)]}
    /\ UNCHANGED n_listing

\* get_organization_stats line 291: the collections of one organization
NameList(organization_id) ==
    /\ NameFrame
    /\ n_listing' = [organization_id |-> organization_id,
                     names |-> list_collections_for_organization(CollectionsOfIndex,
                                                                 organization_id)]
    /\ UNCHANGED n_created

NameNext ==
    \/ \E organization_id \in OrganizationIds, document_type \in DocumentTypes :
          NameCreate(organization_id, document_type)
    \/ \E organization_id \in OrganizationIds : NameList(organization_id)


(***************************************************************************)
(* Fixed-size chunking: rag_service.py, _chunk_by_fixed_size.  A text is   *)
(* the sequence of its characters.                                         *)
(***************************************************************************)
\* the longest text and the largest chunk_size
MaxText == 4
MaxChunkSize == 3

Characters == {"a", "b", " "}

Texts == UNION {[1 .. n -> Characters] : n \in 0 .. MaxText}

Whitespace == {" ", "\n"}

\* text[i:end] of Python, for 0 <= i <= end <= len(text)
Slice(text, i, end) == SubSeq(text, i + 1, end)

\* str.strip: the text without its leading and trailing whitespace
strip(text) ==
    LET inked == {k \in 1 .. Len(text) : text[k] \notin Whitespace}
    IN  IF inked = {} THEN <<>>
        ELSE SubSeq(text, CHOOSE k \in inked : \A j \in inked : k <= j,
                          CHOOSE k \in inked : \A j \in inked : k >= j)

FixedInit ==
    \E text \in Texts, chunk_size \in 1 .. MaxChunkSize,
       overlap \in 0 .. (MaxChunkSize - 1) :
        /\ overlap < chunk_size
        /\ fixed = [text |-> text, chunk_size |-> chunk_size, overlap |-> overlap,
                    i |-> 0, chunks |-> <<>>, pc |-> "loop"]

FixedIdle ==
    fixed = [text |-> <<>>, chunk_size |-> 1, overlap |-> 0, i |-> 0,
             chunks |-> <<>>, pc |-> "idle"]

\* lines 170-181: one iteration of `for i in range(0, len(text), step)`
FixedIterate ==
    /\ FixedFrame
    /\ fixed.pc = "loop"
    /\ fixed.i < Len(fixed.text)
    /\ LET step == fixed.chunk_size - fixed.overlap
           end == Min(fixed.i + fixed.chunk_size, Len(fixed.text))
           content == strip(Slice(fixed.text, fixed.i, end))
       IN
       fixed' = [fixed EXCEPT
           !.chunks = IF content # <<>>
                      THEN Append(@, [content |-> content, start_offset |-> fixed.i,
                                      end_offset |-> end])
                      ELSE @,
           !.pc = IF end >= Len(fixed.text) THEN "returned" ELSE "loop",
           !.i = IF end >= Len(fixed.text) THEN @ ELSE @ + step]

\* line 183: the range is exhausted
FixedReturn ==
    /\ FixedFrame
    /\ fixed.pc = "loop"
    /\ fixed.i >= Len(fixed.text)
    /\ fixed' = [fixed EXCEPT !.pc = "returned"]

FixedNext == FixedIterate \/ FixedReturn


(***************************************************************************)
(* Paragraph chunking: rag_service.py, _chunk_by_paragraph                 *)
(***************************************************************************)
\* the number of paragraphs of a text
MaxParagraphs == 3

\* paragraphs with no whitespace at their ends
ParagraphTexts == {<<"a">>, <<"b", "b">>, <<"a", " ", "b">>}

BlankLine == <<"\n", "\n">>

\* "\n\n".join(paragraphs)
RECURSIVE JoinParagraphs(_)
JoinParagraphs(paragraphs) ==
    IF paragraphs = <<>> THEN <<>>
    ELSE IF Len(paragraphs) = 1 THEN paragraphs[1]
    ELSE paragraphs[1] \o BlankLine \o JoinParagraphs(Tail(paragraphs))

\* texts of blank-line-separated paragraphs
ParagraphedTexts ==
    {JoinParagraphs(ps) : ps \in UNION {[1 .. n -> ParagraphTexts] : n \in 1 .. MaxParagraphs}}

\* text.split("\n\n"): the pieces between the occurrences of the separator,
\* found from the left
RECURSIVE split(_)
split(text) ==
    LET hits == {i \in 1 .. (Len(text) - 1) : SubSeq(text, i, i + 1) = BlankLine}
    IN  IF hits = {} THEN <<text>>
        ELSE LET i == CHOOSE h \in hits : \A j \in hits : h <= j
             IN  <<SubSeq(text, 1, i - 1)>> \o split(SubSeq(text, i + 2, Len(text)))

\* current_chunk[-overlap:] if overlap else ""
LastCharacters(text, overlap) ==
    IF overlap = 0 THEN <<>>
    ELSE SubSeq(text, Len(text) - Min(overlap, Len(text)) + 1, Len(text))

ParaInit ==
    \E text \in ParagraphedTexts, max_chunk_size \in 3 .. 4, overlap \in 1 .. 2 :
        para = [text |-> text, max_chunk_size |-> max_chunk_size,
                overlap |-> overlap, k |-> 0, current_chunk |-> <<>>,
                start_offset |-> 0, current_offset |-> 0, chunks |-> <<>>,
                buffers |-> <<>>, pc |-> "loop"]

ParaIdle ==
    para = [text |-> <<>>, max_chunk_size |-> 3, overlap |-> 1, k |-> 0,
            current_chunk |-> <<>>, start_offset |-> 0, current_offset |-> 0,
            chunks |-> <<>>, buffers |-> <<>>, pc |-> "idle"]

\* lines 199-217: one iteration of `for paragraph in paragraphs`
ParaIterate ==
    /\ ParaFrame
    /\ para.pc = "loop"
    /\ para.k < Len(split(para.text))
    /\ LET paragraph == split(para.text)[para.k + 1]
           trimmed == strip(paragraph)
           overlap_text == LastCharacters(para.current_chunk, para.overlap)
           \* line 218 and the step of the loop
           moved == [para EXCEPT !.current_offset = @ + Len(paragraph) + 2,
                                 !.k = @ + 1]
       IN
       para' =
           IF trimmed = <<>> THEN moved
           ELSE IF Len(para.current_chunk) + Len(trimmed) + 2 > para.max_chunk_size
                   /\ para.current_chunk # <<>>
           THEN [moved EXCEPT
                    !.chunks = Append(@,
                        [content |-> strip(para.current_chunk),
                         start_offset |-> para.start_offset,
                         end_offset |-> para.current_offset]),
                    !.buffers = Append(@, para.current_chunk),
                    !.current_chunk = overlap_text \o BlankLine \o trimmed,
                    !.start_offset = para.current_offset - Len(overlap_text)]
           ELSE [moved EXCEPT
                    !.current_chunk = IF @ # <<>> THEN @ \o BlankLine \o trimmed
                                      ELSE trimmed]

\* lines 219-227: the last buffer is appended and the chunks returned
ParaReturn ==
    /\ ParaFrame
    /\ para.pc = "loop"
    /\ para.k = Len(split(para.text))
    /\ para' =
          IF strip(para.current_chunk) # <<>>
          THEN [para EXCEPT
                   !.chunks = Append(@,
                       [content |-> strip(para.current_chunk),
                        start_offset |-> para.start_offset,
                        end_offset |-> Len(para.text)]),
                   !.buffers = Append(@, para.current_chunk),
                   !.pc = "returned"]
          ELSE [para EXCEPT !.pc = "returned"]

ParaNext == ParaIterate \/ ParaReturn


(***************************************************************************)
(* Formatting for the model: base_adapter.py, truncate_to_token_limit, as  *)
(* every adapter's format_for_llm returns through it                       *)
(***************************************************************************)
\* the longest formatted text and the largest max_tokens
MaxFormatted == 6
MaxTokens == 1

\* one token is taken for 4 characters
CharsPerToken == 4

\* the adapters of adapter_factory
Adapters == {"documents", "leases", "properties", "tenants", "owners", "kpis"}

FormattedTexts == UNION {[1 .. n -> {"x", "]"}] : n \in 0 .. MaxFormatted}

\* the truncation marker: two newlines and the bracketed notice, the notice
\* taken as one character
TruncationMarker ==
    <<"\n", "\n", "[...]">>

NotReturned == <<"not returned">>

\* a faulty variant: the cut keeps the characters up to the token count
truncate_by_tokens(text, max_tokens) ==
    IF Len(text) <= max_tokens THEN text
    ELSE SubSeq(text, 1, max_tokens) \o TruncationMarker

\* truncate_to_token_limit, lines 53-62
truncate_to_token_limit(text, max_tokens) ==
    LET max_chars == max_tokens * CharsPerToken
    IN  IF Len(text) <= max_chars THEN text
        ELSE SubSeq(text, 1, max_chars) \o TruncationMarker

TruncInit ==
    \E adapter \in Adapters, formatted \in FormattedTexts,
       max_tokens \in 0 .. MaxTokens :
        trunc = [adapter |-> adapter, formatted |-> formatted,
                 max_tokens |-> max_tokens, result |-> NotReturned,
                 pc |-> "formatted"]

TruncIdle ==
    trunc = [adapter |-> "documents", formatted |-> <<>>, max_tokens |-> 0,
             result |-> NotReturned, pc |-> "idle"]

\* the last line of every format_for_llm:
\* return self.truncate_to_token_limit(formatted)
FormatForLlmReturn ==
    /\ TruncFrame
    /\ trunc.pc = "formatted"
    /\ trunc' = [trunc EXCEPT
          !.result = truncate_to_token_limit(trunc.formatted, trunc.max_tokens),
          !.pc = "returned"]

TruncNext == FormatForLlmReturn


(***************************************************************************)
(* Window chunking: rag/rag_sdk_service.py, chunk_text                     *)
(***************************************************************************)
\* the longest text, the largest chunk_size, the number of chunks
MaxSdkText == 5
MaxSdkChunkSize == 3
MaxSdkChunks == 3

SdkTexts == UNION {[1 .. n -> {"a", ".", " "}] : n \in 0 .. MaxSdkText}

SentenceEnds == {".", "!", "?"}

\* a slice index of Python: a negative index counts from the end, and the
\* result is clipped to 0 .. len
SliceIndex(index, len) ==
    LET shifted == IF index < 0 THEN index + len ELSE index
    IN  IF shifted < 0 THEN 0 ELSE IF shifted > len THEN len ELSE shifted

\* text[start:end]
PySlice(text, start, end) ==
    SubSeq(text, SliceIndex(start, Len(text)) + 1, SliceIndex(end, Len(text)))

\* text.rfind(sub, start, end) for a one-character sub: the highest index
\* in the slice, -1 if there is none
rfind(text, sub, start, end) ==
    LET hits == {i \in SliceIndex(start, Len(text)) .. (SliceIndex(end, Len(text)) - 1) :
                    text[i + 1] = sub}
    IN  IF hits = {} THEN -1 ELSE CHOOSE i \in hits : \A j \in hits : i >= j

\* max(...) of a finite set of integers
max(values) == CHOOSE a \in values : \A b \in values : a >= b

SdkInit ==
    \E text \in SdkTexts, chunk_size \in 1 .. MaxSdkChunkSize,
       overlap \in 0 .. (MaxSdkChunkSize - 1) :
        /\ overlap < chunk_size
        /\ sdk = [text |-> text, chunk_size |-> chunk_size, overlap |-> overlap,
                  start |-> 0, chunks |-> <<>>, advanced |-> TRUE, pc |-> "start"]

SdkIdle ==
    sdk = [text |-> <<>>, chunk_size |-> 1, overlap |-> 0, start |-> 0,
           chunks |-> <<>>, advanced |-> TRUE, pc |-> "idle"]

\* lines 147-151: a text of at most chunk_size characters is one chunk
SdkBegin ==
    /\ SdkFrame
    /\ sdk.pc = "start"
    /\ sdk' = IF Len(sdk.text) <= sdk.chunk_size
              THEN [sdk EXCEPT !.chunks = <<sdk.text>>, !.pc = "returned"]
              ELSE [sdk EXCEPT !.chunks = <<>>, !.pc = "loop"]

\* lines 153-173: one iteration of `while start < len(text)`
SdkIterate ==
    /\ SdkFrame
    /\ sdk.pc = "loop"
    /\ sdk.start < Len(sdk.text)
    /\ Len(sdk.chunks) < MaxSdkChunks
    /\ LET window_end == sdk.start + sdk.chunk_size
           last_sentence_end ==
               max({rfind(sdk.text, sub, sdk.start, window_end) : sub \in SentenceEnds})
           end == IF window_end < Len(sdk.text) /\ last_sentence_end > sdk.start
                  THEN last_sentence_end + 1 ELSE window_end
           chunk == strip(PySlice(sdk.text, sdk.start, end))
       IN
       sdk' = [sdk EXCEPT
           !.chunks = IF chunk # <<>> THEN Append(@, chunk) ELSE @,
           !.start = end - sdk.overlap,
           !.advanced = (@ /\ end - sdk.overlap > sdk.start)]

\* line 175: the loop has ended
SdkReturn ==
    /\ SdkFrame
    /\ sdk.pc = "loop"
    /\ sdk.start >= Len(sdk.text)
    /\ sdk' = [sdk EXCEPT !.pc = "returned"]

SdkNext == SdkBegin \/ SdkIterate \/ SdkReturn

\* the initial states of each specification: one component starts, the
\* others stay idle
InitCite == CiteInit /\ ChatIdle /\ VecIdle /\ ExclIdle /\ CollIdle /\
    AddIdle /\ DelIdle /\ NameIdle /\ FixedIdle /\ ParaIdle /\ TruncIdle /\
    SdkIdle
InitChat == ChatInit /\ CiteIdle /\ VecIdle /\ ExclIdle /\ CollIdle /\
    AddIdle /\ DelIdle /\ NameIdle /\ FixedIdle /\ ParaIdle /\ TruncIdle /\
    SdkIdle
InitVec == VecInit /\ CiteIdle /\ ChatIdle /\ ExclIdle /\ CollIdle /\
    AddIdle /\ DelIdle /\ NameIdle /\ FixedIdle /\ ParaIdle /\ TruncIdle /\
    SdkIdle
InitExcl == ExclInit /\ CiteIdle /\ ChatIdle /\ VecIdle /\ CollIdle /\
    AddIdle /\ DelIdle /\ NameIdle /\ FixedIdle /\ ParaIdle /\ TruncIdle /\
    SdkIdle
InitColl == CollInit /\ CiteIdle /\ ChatIdle /\ VecIdle /\ ExclIdle /\
    AddIdle /\ DelIdle /\ NameIdle /\ FixedIdle /\ ParaIdle /\ TruncIdle /\
    SdkIdle
InitAdd == AddInit /\ CiteIdle /\ ChatIdle /\ VecIdle /\ ExclIdle /\
    CollIdle /\ DelIdle /\ NameIdle /\ FixedIdle /\ ParaIdle /\ TruncIdle /\
    SdkIdle
InitDel == DelInit /\ CiteIdle /\ ChatIdle /\ VecIdle /\ ExclIdle /\
    CollIdle /\ AddIdle /\ NameIdle /\ FixedIdle /\ ParaIdle /\ TruncIdle /\
    SdkIdle
InitName == NameInit /\ CiteIdle /\ ChatIdle /\ VecIdle /\ ExclIdle /\
    CollIdle /\ AddIdle /\ DelIdle /\ FixedIdle /\ ParaIdle /\ TruncIdle /\
    SdkIdle
InitFixed == FixedInit /\ CiteIdle /\ ChatIdle /\ VecIdle /\ ExclIdle /\
    CollIdle /\ AddIdle /\ DelIdle /\ NameIdle /\ ParaIdle /\ TruncIdle /\
    SdkIdle
InitPara == ParaInit /\ CiteIdle /\ ChatIdle /\ VecIdle /\ ExclIdle /\
    CollIdle /\ AddIdle /\ DelIdle /\ NameIdle /\ FixedIdle /\ TruncIdle /\
    SdkIdle
InitTrunc == TruncInit /\ CiteIdle /\ ChatIdle /\ VecIdle /\ ExclIdle /\
    CollIdle /\ AddIdle /\ DelIdle /\ NameIdle /\ FixedIdle /\ ParaIdle /\
    SdkIdle
InitSdk == SdkInit /\ CiteIdle /\ ChatIdle /\ VecIdle /\ ExclIdle /\
    CollIdle /\ AddIdle /\ DelIdle /\ NameIdle /\ FixedIdle /\ ParaIdle /\
    TruncIdle

SpecCite == InitCite /\ [][CiteNext]_vars

SpecChat == InitChat /\ [][ChatNext]_vars

SpecVec == InitVec /\ [][VecNext]_vars

\* the vectorization with an embedding model of another dimension
InitDim == DimInit /\ CiteIdle /\ ChatIdle /\ ExclIdle /\ CollIdle /\
    AddIdle /\ DelIdle /\ NameIdle /\ FixedIdle /\ ParaIdle /\ TruncIdle /\
    SdkIdle

SpecDim == InitDim /\ [][VecNext]_vars

SpecExcl == InitExcl /\ [][ExclNext]_vars

SpecColl == InitColl /\ [][CollNext]_vars

SpecAdd == InitAdd /\ [][AddNext]_vars

SpecDel == InitDel /\ [][DelNext]_vars

SpecName == InitName /\ [][NameNext]_vars

SpecFixed == InitFixed /\ [][FixedNext]_vars

SpecPara == InitPara /\ [][ParaNext]_vars

SpecTrunc == InitTrunc /\ [][TruncNext]_vars

SpecSdk == InitSdk /\ [][SdkNext]_vars

(***************************************************************************)
(* Properties of the chat turn                                             *)
(***************************************************************************)
StorageFault == s_faults \cap {"insert", "update"} # {}

EventKinds == [i \in 1..Len(s_events) |-> s_events[i][1]]

IsTerminal(kind) == kind \in {"done", "error"}

\* C5: retrieval with an empty source-type list asks no adapter and gives
\* no result
C5_EmptySourcesNoRetrieval ==
    get_requested_sources(s_requested) = <<>> =>
        (s_results = <<>> /\ s_invoked = <<>>)

\* C6: a finished retrieval-only turn with zero results and no storage fault
\* gives the canned "nothing found" message as its content, with no citation
\* and no error, on the streaming path and on the blocking path
C6_NothingFoundOnBothPaths ==
    (s_pc = "closed" /\ s_mode = "rag_only" /\ s_results = <<>> /\ ~StorageFault) =>
        /\ s_path = "stream" =>
              s_events = <<ChunkEvent(<<NothingFound>>), DoneEvent>>
        /\ s_path = "blocking" =>
              s_response = [raised |-> FALSE, content |-> <<NothingFound>>,
                            citations |-> <<>>]

\* C7: the events of a streamed turn hold at most one terminal event (done
\* or error), it is the last event and the generator has returned; a
\* finished turn ends with a terminal event; no chunk event follows a
\* citation event
C7_OneTerminalEventLast ==
    s_path = "stream" =>
        /\ \A i \in 1..Len(s_events) :
              IsTerminal(EventKinds[i]) => (i = Len(s_events) /\ s_pc = "closed")
        /\ s_pc = "closed" =>
              (s_events # <<>> /\ IsTerminal(EventKinds[Len(s_events)]))
        /\ \A i, j \in 1..Len(s_events) :
              (i < j /\ EventKinds[i] = "citation") => EventKinds[j] # "chunk"

C7_Witness ==
    /\ s_path = "stream" /\ s_mode = "rag_enhanced" /\ s_pc = "closed"
    /\ Len(s_streamed) >= 2
    /\ \E i \in 1..Len(s_events) : EventKinds[i] = "citation"
    /\ EventKinds[Len(s_events)] = "done"

StreamedChunkEvents == [i \in 1..Len(s_streamed) |-> ChunkEvent(s_streamed[i])]

\* C8: once the completion stream has raised, the turn is over and its
\* events are the chunk events already sent followed by one error event: no
\* citation event, no done event, and no assistant message is stored
C8_GenerationErrorIsTerminal ==
    (s_path = "stream" /\ "generation" \in s_faults) =>
        /\ s_pc = "closed"
        /\ s_events = StreamedChunkEvents \o <<ErrorEvent>>
        /\ \A i \in 1..Len(s_messages) : s_messages[i].role # "assistant"

C8_Witness ==
    /\ s_path = "stream" /\ s_mode = "rag_enhanced" /\ "generation" \in s_faults
    /\ Len(s_streamed) >= 1 /\ s_streamed[1] = Marker(Id1)
    /\ \E i \in 1..Len(s_citations) : s_citations[i].chunk_id = Id1

AllCitationEvents == [i \in 1..Len(s_citations) |-> CitationEvent(s_citations[i])]

\* C9: a finished retrieval-only turn with at least one result and no
\* storage fault has rendered every result in its content, sent one citation
\* event per result, stored the message and ended with done
C9_RetrievalOnlyRendersAll ==
    (s_path = "stream" /\ s_pc = "closed" /\ s_mode = "rag_only"
        /\ s_results # <<>> /\ ~StorageFault) =>
        /\ s_events = <<ChunkEvent(RenderResults(s_results))>>
                          \o AllCitationEvents \o <<DoneEvent>>
        /\ \E i \in 1..Len(s_messages) :
              s_messages[i] = [role |-> "assistant",
                               content |-> RenderResults(s_results),
                               citations |-> s_citations]

\* the distinct identifiers the markers of the generated text reference
CitedIds == Range(c_cited)

\* every marker of the generated text references a candidate's chunk_id
MarkersReferenceCandidates ==
    \A i \in 1..Len(c_cited) :
        \E j \in 1..Len(c_candidates) : c_cited[i] = <<c_candidates[j].chunk_id>>

HasMarker(s) == \E p \in 1..Len(s) : MatchEnd(s, p) > 0

\* C2: for a generated text whose markers each reference a candidate, the
\* filtered citations are exactly the referenced candidates, one citation
\* per distinct referenced id and none for an unreferenced candidate
C2_OneCitationPerReferencedId ==
    (c_pc = "filtered" /\ MarkersReferenceCandidates) =>
        /\ \A j \in 1..Len(c_candidates) :
              (c_candidates[j] \in Range(c_used))
                  <=> IsCited(c_candidates[j].chunk_id, c_cited)
        /\ Len(c_used) = Cardinality(CitedIds)

\* C3: the cleaned text returned by parse_citations_from_content contains
\* no [SOURCE:<id>] marker, whatever the generated text
C3_CleanedHasNoMarker ==
    c_pc \in {"parsed", "filtered"} => ~HasMarker(c_cleaned)

ScenarioDone ==
    c_pc = "filtered" /\ c_content = ScenarioText /\ c_sources = <<"documents">>

UsedDocumentIds == [i \in 1..Len(c_used) |-> c_used[i].document_id]

\* C4 as stated: the scenario text with candidates doc-1 and doc-2 yields
\* citations [doc-1] and the displayed text "Rent is 1500. Quiet area."
C4_ScenarioAsStated ==
    ScenarioDone =>
        /\ UsedDocumentIds = <<"doc-1">>
        /\ c_cleaned = <<"Rent is 1500", ".", " ", "Quiet area.">>

\* C4 amended: the scenario yields citations [doc-1] and the displayed text
\* "Rent is 1500 . Quiet area." (the blank before the marker is kept)
C4_ScenarioAmended ==
    ScenarioDone =>
        /\ UsedDocumentIds = <<"doc-1">>
        /\ c_cleaned = <<"Rent is 1500", " ", ".", " ", "Quiet area.">>

C4_Witness == ScenarioDone /\ Len(c_candidates) = 2 /\ ~HasMarker(c_cleaned)


(***************************************************************************)
(* Document vectorization                                                  *)
(***************************************************************************)
\* a call that started on a document already vectorized with the hash of
\* the current file, ran alone on an unchanged file, met no fault, and has
\* gone past the comparison of hashes
SequentialRepeat(call) ==
    /\ call.pc \notin {"idle", "check"}
    /\ ~call.force
    /\ call.pre
    /\ ~call.overlapped
    /\ ~call.edited
    /\ ~call.faulted

\* C1: after a successful vectorize_document(D, force=false), a second
\* sequential vectorize_document(D, force=false) on the unchanged file
\* returns skipped and neither chunks nor upserts.
C1_RepeatedCallIsSkipped ==
    \A c \in Callers :
        SequentialRepeat(v_calls[c]) =>
            /\ v_calls[c].pc = "done"
            /\ v_calls[c].result = "skipped"
            /\ ~v_calls[c].did_chunk
            /\ v_calls[c].batches = 0


(***************************************************************************)
(* Soft exclusion                                                          *)
(***************************************************************************)
\* set_document_exclusion(D, true) and then set_document_exclusion(D, false)
\* have both returned, nothing else having run in between
RoundTripDone == e_trip.phase = 4

PointsOf(points, document_id) == {p \in points : p.document_id = document_id}

\* the points as they were, the points of the document not excluded
Included(points, document_id) ==
    {IF p.document_id = document_id THEN [p EXCEPT !.is_excluded = FALSE] ELSE p :
        p \in points}

OnePageOrIncluded ==
    \/ Cardinality(PointsOf(e_trip.before, e_trip.document_id)) <= ScrollLimit
    \/ \A p \in PointsOf(e_trip.before, e_trip.document_id) : ~p.is_excluded

Created(collection_name) ==
    Cardinality({i \in 1..Len(k_creations) : k_creations[i] = collection_name})

\* C11: every caller of ensure_collection_exists that has returned has
\* returned success, also when another caller created the collection between
\* its check and its creation, and the collection exists exactly once.
C11_RacingCreatorsSucceed ==
    \A c \in Callers :
        k_calls[c].pc = "done" =>
            /\ k_calls[c].result = "True"
            /\ k_calls[c].name \in k_collections
            /\ Created(k_calls[c].name) = 1

(***************************************************************************)
(* add_documents                                                           *)
(***************************************************************************)
RECURSIVE StoredSize(_)
StoredSize(log) ==
    IF log = <<>> THEN 0
    ELSE (IF log[1].ok THEN log[1].size ELSE 0) + StoredSize(Tail(log))

Ceiling(a, b) == (a + b - 1) \div b

\* C12: when add_documents returns, every batch was attempted in order
\* (batch j starts at (j-1) * batch_size and has at most batch_size
\* documents), batches = ceil(total / batch_size), errors counts the failed
\* batches, processed is the total size of the successful batches and
\* processed <= total.
C12_EveryBatchAttempted ==
    a_pc = "returned" =>
        /\ a_stats.batches = Ceiling(a_total, a_batch_size)
        /\ Len(a_log) = a_stats.batches
        /\ \A j \in 1..Len(a_log) :
              /\ a_log[j].start = (j - 1) * a_batch_size
              /\ a_log[j].size = Min(a_batch_size, a_total - a_log[j].start)
              /\ a_log[j].size >= 1
        /\ a_stats.errors = Cardinality({j \in 1..Len(a_log) : ~a_log[j].ok})
        /\ a_stats.processed = StoredSize(a_log)
        /\ a_stats.processed <= a_total
        /\ a_stats.total = a_total

\* a call has returned whose first batch failed and whose last batch, a
\* short one, succeeded
C12_Witness ==
    /\ a_pc = "returned"
    /\ Len(a_log) >= 3
    /\ ~a_log[1].ok
    /\ a_log[Len(a_log)].ok
    /\ a_log[Len(a_log)].size < a_batch_size

(***************************************************************************)
(* delete_by_document_id                                                   *)
(***************************************************************************)
\* delete_by_document_id has returned and no point was written since it
\* was called
DeleteReturned == d_call.pc = "returned" /\ ~d_call.disturbed

\* C13: after delete_by_document_id(collection, D) has returned normally, no
\* point has D as its top-level or as its nested document id, and the points
\* of other documents are as they were.
C13_NoPointLeftAfterDelete ==
    DeleteReturned =>
        /\ Matching(d_points, d_call.document_id) = {}
        /\ d_points = d_call.before \ Matching(d_call.before, d_call.document_id)

(***************************************************************************)
(* vectorize_document: the points stored for the document                  *)
(***************************************************************************)
\* the points a run stores when every chunk of the content it read is stored
ExpectedPoints(call) ==
    {[run |-> call.run, chunk_id |-> i - 1, num_chunks |-> NumChunks(call.content),
      page_content |-> <<call.content, i>>] : i \in 1 .. NumChunks(call.content)}

\* the latest call was made with force, ran with no other call on the
\* document and no change of the file, and returned success with no failed
\* batch
ForcedRunDone(call) ==
    /\ call.pc = "done"
    /\ call.run = v_started
    /\ call.force
    /\ call.result = "success"
    /\ call.errors = 0
    /\ ~call.overlapped
    /\ ~call.edited

\* C14: after vectorize_document(D, force=true) has completed with every
\* batch successful and no concurrent run on D, the points stored for D are
\* exactly the chunks of the content the run read, none of an earlier run.
C14_ForcedRunReplacesPoints ==
    \A c \in Callers :
        ForcedRunDone(v_calls[c]) => v_points = ExpectedPoints(v_calls[c])

\* the call has chunked a file that gives no chunk
ChunkedNothing(call) == call.did_chunk /\ NumChunks(call.content) = 0

\* the call is the latest one on the document, ran with no other call, and
\* every update of the document row and of the job row went through
SettledAlone(call) ==
    /\ call.pc = "done"
    /\ call.run = v_started
    /\ ~call.overlapped
    /\ ~call.storage_faulted

\* C15: when chunking yields no chunk, vectorize_document goes straight to
\* its failure path: no batch is attempted and no point stored, the call
\* returns success=false with the message, the document is set to 'error'
\* with the message and the job to 'failed'.
C15_NoChunkAborts ==
    \A c \in Callers :
        LET call == v_calls[c]
        IN  ChunkedNothing(call) =>
              /\ call.pc \in {"except", "done"}
              /\ call.batches = 0
              /\ call.processed = 0
              /\ \A p \in v_points : p.run # call.run
              /\ call.error = "No chunks generated from document"
              /\ call.pc = "done" => call.result = "failed"
              /\ SettledAlone(call) =>
                    /\ v_doc.status = "error"
                    /\ v_doc.error = "No chunks generated from document"
                    /\ call.job # 0
                    /\ v_jobs[call.job].status = "failed"
                    /\ v_jobs[call.job].error = "No chunks generated from document"

C15_Witness ==
    \E c \in Callers :
        /\ ChunkedNothing(v_calls[c])
        /\ SettledAlone(v_calls[c])
        /\ v_calls[c].result = "failed"
        /\ v_doc.status = "error"

\* C16: when the dimension of the embedding model is not the one the
\* collection was created with, the indexing call fails and the document is
\* never recorded as 'vectorized'.
C16_MismatchNeverVectorized ==
    dimension(v_model) # VectorSize =>
        /\ v_doc.status # "vectorized"
        /\ \A c \in Callers : v_calls[c].result # "success"

\* the latest call ran alone, took the failure path and its updates of the
\* document row and the job row went through
FailedAlone(call) == SettledAlone(call) /\ call.result = "failed"

\* C17: whenever vectorize_document leaves the document in status 'error',
\* the index holds no point of the document.
C17_ErrorMeansNoPoint ==
    \A c \in Callers :
        (FailedAlone(v_calls[c]) /\ v_doc.status = "error") => v_points = {}

\* the points of the collection that a run stored
RunPoints(run) == {p \in v_points : p.run = run}

\* C18: a failed upsert batch does not stop vectorize_document: the call
\* completes with success, the job is 'completed' with num_chunks_processed
\* equal to the number of chunks stored, which is less than the total, and
\* the document is 'vectorized' with num_chunks equal to the total.
C18_PartialRunCompletes ==
    \A c \in Callers :
        LET call == v_calls[c]
        IN  call.errors > 0 =>
              /\ call.pc \in {"batch", "done"}
              /\ call.pc = "done" => call.result = "success"
              /\ call.processed < call.n
              /\ SettledAlone(call) =>
                    /\ call.job # 0
                    /\ v_jobs[call.job].status = "completed"
                    /\ v_jobs[call.job].processed = call.processed
                    /\ Cardinality(RunPoints(call.run)) = call.processed
                    /\ v_doc.status = "vectorized"
                    /\ v_doc.num_chunks = call.n

C18_Witness ==
    \E c \in Callers :
        /\ SettledAlone(v_calls[c])
        /\ v_calls[c].errors > 0
        /\ v_calls[c].processed > 0
        /\ v_doc.status = "vectorized"

\* the latest call ran alone and returned success
SucceededAlone(call) ==
    /\ call.pc = "done"
    /\ call.run = v_started
    /\ call.result = "success"
    /\ ~call.overlapped

\* C20: the chunks indexed for the document by one run carry the chunk
\* numbers 0 .. N-1 in source order, each once, and the total N, where N is
\* the number of chunks produced.
C20_IndexedChunksNumbered ==
    \A c \in Callers :
        LET call == v_calls[c]
            indexed == RunPoints(call.run)
        IN  SucceededAlone(call) =>
              /\ {p.chunk_id : p \in indexed} = 0 .. (call.n - 1)
              /\ Cardinality(indexed) = call.n
              /\ \A p \in indexed :
                    /\ p.num_chunks = call.n
                    /\ p.page_content = <<call.content, p.chunk_id + 1>>

(***************************************************************************)
(* get_collection_name                                                     *)
(***************************************************************************)
\* the characters the document type of a name may not contain
Unclean == {" ", "-", "A", "E"}

CoveredPositions(chunks) ==
    UNION {chunks[k].start_offset .. (chunks[k].end_offset - 1) : k \in 1 .. Len(chunks)}

\* C21: the chunks of _chunk_by_fixed_size start at 0, step, 2*step, ...,
\* the content of each is the text between its offsets, and the ranges
\* cover every position of the text.
C21_FixedSizeCovers ==
    fixed.pc = "returned" =>
        /\ \A k \in 1 .. Len(fixed.chunks) :
              /\ fixed.chunks[k].start_offset = (k - 1) * (fixed.chunk_size - fixed.overlap)
              /\ fixed.chunks[k].content =
                    Slice(fixed.text, fixed.chunks[k].start_offset, fixed.chunks[k].end_offset)
        /\ CoveredPositions(fixed.chunks) = 0 .. (Len(fixed.text) - 1)

(***************************************************************************)
(* _chunk_by_paragraph                                                     *)
(***************************************************************************)
\* chunk k without its leading overlap: the last `overlap` characters of
\* the buffer appended before it
WithoutOverlap(k) ==
    IF k = 1 THEN para.chunks[k].content
    ELSE LET overlap_text == LastCharacters(para.buffers[k - 1], para.overlap)
         IN  SubSeq(para.chunks[k].content, Len(overlap_text) + 1,
                    Len(para.chunks[k].content))

RECURSIVE ConcatWithoutOverlap(_)
ConcatWithoutOverlap(k) ==
    IF k = 0 THEN <<>> ELSE ConcatWithoutOverlap(k - 1) \o WithoutOverlap(k)

\* C22: for a text of blank-line-separated paragraphs, the chunks of
\* _chunk_by_paragraph, each after the first without its leading overlap,
\* concatenate to the original text.
C22_ParagraphsConcatenate ==
    para.pc = "returned" => ConcatWithoutOverlap(Len(para.chunks)) = para.text

(***************************************************************************)
(* format_for_llm                                                          *)
(***************************************************************************)
\* C23: the text format_for_llm returns is never longer than
\* max_tokens * 4 characters plus the truncation marker, and a text within
\* the bound is returned unchanged, without marker.
C23_TruncationBound ==
    trunc.pc = "returned" =>
        LET max_chars == trunc.max_tokens * 4
        IN  /\ Len(trunc.result) <= max_chars + Len(TruncationMarker)
            /\ Len(trunc.formatted) <= max_chars => trunc.result = trunc.formatted
            /\ Len(trunc.formatted) > max_chars =>
                  /\ SubSeq(trunc.result, 1, max_chars) = SubSeq(trunc.formatted, 1, max_chars)
                  /\ Len(trunc.result) = max_chars + Len(TruncationMarker)

C23_Witness ==
    /\ trunc.pc = "returned"
    /\ Len(trunc.formatted) > trunc.max_tokens * 4
    /\ trunc.max_tokens > 0
    /\ Len(trunc.result) = trunc.max_tokens * 4 + Len(TruncationMarker)

(***************************************************************************)
(* process_chat_stream: persistence and display                            *)
(***************************************************************************)
\* the citations sent in citation events, in order
EmittedCitations ==
    LET at == {i \in 1 .. Len(s_events) : s_events[i][1] = "citation"}
        nth(k) == CHOOSE i \in at : Cardinality({j \in at : j <= i}) = k
    IN  [k \in 1 .. Cardinality(at) |-> s_events[nth(k)][2]]

\* C24: when process_chat_stream has sent the done event, the assistant
\* message is stored with the cleaned text and exactly the citations that
\* were sent.
C24_DoneAfterPersist ==
    (s_path = "stream" /\ DoneEvent \in Range(s_events)) =>
        \E i \in 1 .. Len(s_messages) :
            s_messages[i] = [role |-> "assistant", content |-> s_full,
                             citations |-> EmittedCitations]

\* C25: outside the retrieval-only mode, no chunk event of
\* process_chat_stream carries a [SOURCE:<chunk_id>] marker.
C25_NoMarkerInChunkEvents ==
    (s_path = "stream" /\ s_mode # "rag_only") =>
        \A i \in 1 .. Len(s_events) :
            s_events[i][1] = "chunk" => ~HasMarker(s_events[i][2])

(***************************************************************************)
(* vectorize_document: concurrent and successive calls                     *)
(***************************************************************************)
\* the call was made with force and returned success, with no fault in it
ForcedSuccess(call) ==
    /\ call.pc = "done"
    /\ call.force
    /\ call.result = "success"
    /\ ~call.faulted

\* C26: vectorize_document takes no lock: two forced calls on the document
\* can both return success and leave the points of both runs, more than the
\* recorded num_chunks; a fault-free forced run that is the latest call
\* leaves other points than its own only if it overlapped another call.
C26_OnlyOverlapMixesRuns ==
    \A c \in Callers :
        (/\ ForcedSuccess(v_calls[c])
         /\ v_calls[c].run = v_started
         /\ v_points # ExpectedPoints(v_calls[c]))
        => v_calls[c].overlapped

C26_Witness ==
    \E c1 \in Callers, c2 \in Callers :
        /\ c1 # c2
        /\ ForcedSuccess(v_calls[c1]) /\ ForcedSuccess(v_calls[c2])
        /\ v_calls[c1].overlapped /\ v_calls[c2].overlapped
        /\ RunPoints(v_calls[c1].run) = ExpectedPoints(v_calls[c1])
        /\ RunPoints(v_calls[c2].run) = ExpectedPoints(v_calls[c2])
        /\ v_doc.status = "vectorized"
        /\ Cardinality(v_points) > v_doc.num_chunks

\* C27: a call that has set the document to 'in_progress' and created its
\* 'processing' job leaves the job 'completed' or 'failed' when it returns,
\* and the document 'vectorized' or 'error' once no call is running.
C27_ReturnedCallLeavesTerminalState ==
    \A c \in Callers :
        LET call == v_calls[c]
        IN  (call.pc = "done" /\ call.job # 0 /\ ~call.storage_faulted) =>
              /\ v_jobs[call.job].status \in {"completed", "failed"}
              /\ (\A d \in Callers : ~Active(v_calls[d])) =>
                    v_doc.status \in {"vectorized", "error"}

\* no two calls have overlapped (a second caller is taken only while the
\* first is running), the file has not changed, and no external call has
\* failed
SequentialFaultFree == v_calls[2].pc = "idle" /\ v_edits = 0 /\ v_faultCount = 0

\* C28: after non-overlapping calls on an unchanged file in which every
\* batch succeeded, a document in status 'vectorized' has as many points as its recorded
\* num_chunks, all from the content whose hash is recorded.
C28_PointsMatchRecord ==
    (/\ SequentialFaultFree
     /\ ~Active(v_calls[1])
     /\ v_doc.status = "vectorized")
    => /\ Cardinality(v_points) = v_doc.num_chunks
       /\ \A p \in v_points : FileHash(p.page_content[1]) = v_doc.content_hash

(***************************************************************************)
(* rag_sdk_service.chunk_text                                              *)
(***************************************************************************)
\* C29: with chunk_size > overlap >= 0, every iteration of the loop of
\* chunk_text moves the window start strictly forward.
C29_WindowStartIncreases == sdk.advanced

(***************************************************************************)
(* Exclusion and search                                                    *)
(***************************************************************************)
\* search_chunks lines 672-703: the points the query filter lets through,
\* before the ranking by score (is_excluded must be false)
search_chunks(points) == {p \in points : p.is_excluded = FALSE}

\* C30: once set_document_exclusion(D, true) has returned, and nothing has
\* run since, every point of D has is_excluded = true and search_chunks
\* can return no chunk of D, however many points D has.
C30_ExcludedDocumentNotSearched ==
    e_trip.phase = 2 =>
        /\ \A p \in PointsOf(e_points, e_trip.document_id) : p.is_excluded
        /\ \A p \in search_chunks(e_points) : p.document_id # e_trip.document_id

====
